---- MODULE Spec2Model ----
(***************************************************************************)
(* relative-deps2: the change detector (src/src/cache.ts, src/src/utils.ts) *)
(* and the install run with its sequential loop and its dependency-aware   *)
(* parallel scheduler (src/src/core.ts, src/src/builder.ts).               *)
(*                                                                         *)
(* A library's source tree is a record (Lib); the cache directory holds,   *)
(* per dependency name, a `.hash` file and a `.metadata.json` file         *)
(* (store).  File contents are small integers, a checksum is an injective  *)
(* function of the content (no collisions), time is a logical clock.       *)
(***************************************************************************)
EXTENDS Integers, Sequences, FiniteSets, TLC

(***************************************************************************)
(* Bounds of the model.                                                    *)
(***************************************************************************)
\* most entries the libraries' manifests hold together (edges of the graph)
MaxEdges == 2
\* largest concurrency ceiling tried
MaxConc == 3
\* most libraries that differ from a plain, changed, buildable library
MaxVariants == 1
\* cap on the number of times one task is started
MaxStarts == 2
\* install runs in a row
MaxRuns == 3
\* edits of the library between the runs
MaxEdits == 2
\* the entries in the manifests' dependency sets when cycles are looked at
MaxCycleEdges == 3
\* the entries in the dependency objects of one manifest
MaxEntries == 2
\* install processes started side by side
MaxProcs == 3

(***************************************************************************)
(* Names and files.                                                        *)
(***************************************************************************)
\* the dependency names, in the order the consumer's manifest declares them
NameSeq == <<"A", "B", "C">>
Names == {NameSeq[i] : i \in 1..Len(NameSeq)}
\* a registry package, never a relative dependency
External == "ext"
\* a registry package whose name is also a property every JavaScript object
\* inherits from Object.prototype
Inherited == "constructor"
\* the order in which a manifest lists the keys of its dependency objects
KeyOrder == NameSeq \o <<External, Inherited>>
DepNames == Names \cup {External}

\* the versions a manifest may declare; "" is a manifest without the field
Versions == {"", "0.0.0", "1.0.0"}
\* the build scripts a manifest may declare; "" is a manifest without one
BuildScripts == {"", "b1", "b2"}

\* the files of a library's tree the model follows, in the order of
\* Array.prototype.sort (UTF-16 code units: "-" sorts before ".")
PathOrder ==
    << "dist/index.js", "node_modules/x", "package-lock.json",
       "package.json", "src/index.js" >>

\* createChangeMetadata's importantFiles, those of them the model follows
ImportantFiles == {"package.json", "package-lock.json", "src", "dist"}

\* findFiles' ignore list: is the path excluded from the fingerprint?
Ignored(p) ==
    p \in {"dist/index.js", "node_modules/x", "package-lock.json"}

Max(a, b) == IF a >= b THEN a ELSE b

(***************************************************************************)
(* Encodings: the text of a manifest and the digests of texts.             *)
(***************************************************************************)
NameBit(n) ==
    CASE n = "A" -> 1 [] n = "B" -> 2 [] n = "C" -> 4 [] n = External -> 8
      [] OTHER -> 16

RECURSIVE SetCode(_)
SetCode(S) ==
    IF S = {} THEN 0
    ELSE LET n == CHOOSE x \in S : TRUE IN NameBit(n) + SetCode(S \ {n})

VersionCode(v) ==
    CASE v = "" -> 0 [] v = "0.0.0" -> 1 [] v = "1.0.0" -> 2 [] OTHER -> 3

BuildCode(b) ==
    CASE b = "" -> 0 [] b = "b1" -> 1 [] b = "b2" -> 2 [] OTHER -> 3

\* JSON.stringify({dependencies, devDependencies, peerDependencies,
\* buildScript, ...}): a missing object and {} give the same text
ConfigString(l) ==
    SetCode(l.deps) + 32 * SetCode(l.devDeps) + 1024 * SetCode(l.peerDeps)
        + 32768 * BuildCode(l.build)

\* crypto.createHash("md5") of the configuration text
Md5(text) == 3 * text + 1

\* the text of package.json: name, version and the configuration
PackageJsonText(l) ==
    IF l.pkg = "corrupt" THEN 0
    ELSE 1 + (IF l.nameOk THEN 0 ELSE 1) + 2 * VersionCode(l.version)
           + 8 * ConfigString(l)

\* a digest that does not depend on the content (a mutant)
ChecksumOfNothing(content) == 1

\* checksum.file of a file's content; the sentinel of an unhashable file
\* ("ERROR") is no digest
Checksum(content) == 2 * content + 1
ErrorHash == 0

(***************************************************************************)
(* The library tree.                                                       *)
(***************************************************************************)
\* the paths that exist in the tree
Tree(l) ==
    {p \in {PathOrder[i] : i \in 1..Len(PathOrder)} :
        CASE p = "package.json" -> l.pkg # "missing"
          [] p = "src/index.js" -> l.src > 0
          [] p = "dist/index.js" -> l.dist > 0
          [] p = "node_modules/x" -> l.nodeModules
          [] OTHER -> l.mt["package-lock.json"] > 0}

FileContent(l, p) ==
    CASE p = "package.json" -> PackageJsonText(l)
      [] p = "src/index.js" -> l.src
      [] p = "dist/index.js" -> l.dist
      [] OTHER -> 1

\* can the file be read (hashed)?
Readable(l, p) == p # "src/index.js" \/ l.srcOk

\* findFiles: the included relative paths, sorted
findFiles(l) ==
    SelectSeq(PathOrder,
              LAMBDA p : p \in Tree(l) /\ ~Ignored(p) /\ ~l.ignoreAll)

\* getFileHash, with computeFileHashes' catch: the digest or the sentinel
getFileHash(l, p) ==
    IF Readable(l, p) THEN Checksum(FileContent(l, p)) ELSE ErrorHash

\* computeFileHashes: the lines "<hash> <path>" in sorted-path order, and
\* the files that could not be hashed
computeFileHashes(l) ==
    LET libFiles == findFiles(l) IN
    [ contents |-> [i \in 1..Len(libFiles) |->
                        <<getFileHash(l, libFiles[i]), libFiles[i]>>],
      changedFiles |-> SelectSeq(libFiles, LAMBDA p : ~Readable(l, p)) ]

\* the place of path p in the order of Array.prototype.sort
Rank(p) == CHOOSE i \in 1..Len(PathOrder) : PathOrder[i] = p

\* files.sort() that leaves the files as globby listed them (a mutant)
sortSkipped(files) == files

\* files.sort(): the same paths, in ascending order
RECURSIVE sort(_)
sort(files) ==
    IF Len(files) = 0 THEN <<>>
    ELSE LET least == CHOOSE i \in 1..Len(files) :
                          \A j \in 1..Len(files) : Rank(files[i]) <= Rank(files[j])
             rest == [j \in 1..(Len(files) - 1) |->
                         IF j < least THEN files[j] ELSE files[j + 1]]
         IN <<files[least]>> \o sort(rest)

\* what globby may return for the tree: the included paths, each once, in
\* any order
Enumerations(l) ==
    LET included == {findFiles(l)[i] : i \in 1..Len(findFiles(l))}
    IN { e \in [1..Cardinality(included) -> included] :
            \A i, j \in 1..Cardinality(included) : e[i] = e[j] => i = j }

\* computeFileHashes when globby lists the files in the order `files`
computeFileHashesOf(l, files) ==
    LET libFiles == sort(files) IN
    [ contents |-> [i \in 1..Len(libFiles) |->
                        <<getFileHash(l, libFiles[i]), libFiles[i]>>],
      changedFiles |-> SelectSeq(libFiles, LAMBDA p : ~Readable(l, p)) ]

(***************************************************************************)
(* The metadata snapshot.                                                  *)
(***************************************************************************)
\* Math.max over the mtimes of the important files that exist
RECURSIVE MaxMtime(_, _)
MaxMtime(mt, S) ==
    IF S = {} THEN 0
    ELSE LET f == CHOOSE x \in S : TRUE
         IN Max(mt[f], MaxMtime(mt, S \ {f}))

NoMetadata ==
    [st |-> "missing", lastModified |-> 0, packageVersion |-> "",
     dependencyHash |-> 0]
CorruptMetadata == [NoMetadata EXCEPT !.st = "corrupt"]

\* createChangeMetadata: throws (thrown = TRUE) when package.json cannot be
\* read or parsed
createChangeMetadata(l) ==
    [ thrown |-> l.pkg # "ok",
      meta |-> [ st |-> "ok",
                 lastModified |-> MaxMtime(l.mt, ImportantFiles),
                 packageVersion |->
                     IF l.version = "" THEN "0.0.0" ELSE l.version,
                 dependencyHash |-> Md5(ConfigString(l)) ] ]

\* the lastModified comparison of quickChangeCheck, after its mutant that
\* also counts an equal time as a modification
ModifiedSinceLax(current, saved) == current >= saved
ModifiedSince(current, saved) == current > saved

\* quickChangeCheck that finds nothing when the stored metadata cannot be
\* parsed (a mutant)
quickChangeCheckNoCatch(l, metadataFile) ==
    IF metadataFile.st = "missing"
    THEN [hasChanges |-> TRUE, reason |-> "No metadata file found"]
    ELSE LET currentMetadata == createChangeMetadata(l) IN
    IF metadataFile.st = "corrupt" \/ currentMetadata.thrown
    THEN [hasChanges |-> FALSE, reason |-> ""]
    ELSE IF metadataFile.packageVersion # currentMetadata.meta.packageVersion
    THEN [hasChanges |-> TRUE, reason |-> "Package version changed"]
    ELSE IF metadataFile.dependencyHash # currentMetadata.meta.dependencyHash
    THEN [hasChanges |-> TRUE, reason |-> "Package dependencies changed"]
    ELSE IF ModifiedSince(currentMetadata.meta.lastModified, metadataFile.lastModified)
    THEN [hasChanges |-> TRUE, reason |-> "Important files modified"]
    ELSE [hasChanges |-> FALSE, reason |-> ""]

\* quickChangeCheck with the modification time looked at first (a mutant)
quickChangeCheckTimeFirst(l, metadataFile) ==
    IF metadataFile.st = "missing"
    THEN [hasChanges |-> TRUE, reason |-> "No metadata file found"]
    ELSE LET currentMetadata == createChangeMetadata(l) IN
    IF metadataFile.st = "corrupt" \/ currentMetadata.thrown
    THEN [hasChanges |-> TRUE, reason |-> "Error reading metadata"]
    ELSE IF ModifiedSince(currentMetadata.meta.lastModified, metadataFile.lastModified)
    THEN [hasChanges |-> TRUE, reason |-> "Important files modified"]
    ELSE IF metadataFile.packageVersion # currentMetadata.meta.packageVersion
    THEN [hasChanges |-> TRUE, reason |-> "Package version changed"]
    ELSE IF metadataFile.dependencyHash # currentMetadata.meta.dependencyHash
    THEN [hasChanges |-> TRUE, reason |-> "Package dependencies changed"]
    ELSE [hasChanges |-> FALSE, reason |-> ""]

\* quickChangeCheck: the fast path over the stored metadata file
quickChangeCheck(l, metadataFile) ==
    IF metadataFile.st = "missing"
    THEN [hasChanges |-> TRUE, reason |-> "No metadata file found"]
    ELSE LET currentMetadata == createChangeMetadata(l) IN
    IF metadataFile.st = "corrupt" \/ currentMetadata.thrown
    THEN [hasChanges |-> TRUE, reason |-> "Error reading metadata"]
    ELSE IF metadataFile.packageVersion # currentMetadata.meta.packageVersion
    THEN [hasChanges |-> TRUE, reason |-> "Package version changed"]
    ELSE IF metadataFile.dependencyHash # currentMetadata.meta.dependencyHash
    THEN [hasChanges |-> TRUE, reason |-> "Package dependencies changed"]
    ELSE IF ModifiedSince(currentMetadata.meta.lastModified, metadataFile.lastModified)
    THEN [hasChanges |-> TRUE, reason |-> "Important files modified"]
    ELSE [hasChanges |-> FALSE, reason |-> ""]

NoHashFile == [st |-> "missing", contents |-> <<>>]
UnreadableHashFile == [st |-> "unreadable", contents |-> <<>>]
HashFileOf(contents) == [st |-> "ok", contents |-> contents]
\* a .hash file that holds something no fingerprint is
CorruptHashFile == HashFileOf(<< <<-1, "?">> >>)

\* the verdict of the full comparison, after its mutant that never sees a
\* difference
FullCompareSkipped(contents, referenceContents) == FALSE
FullCompare(contents, referenceContents) == contents # referenceContents

\* libraryHasChanged: the verdict, its reason, whether it threw, and the
\* fingerprint it leaves in hashStore.hash
libraryHasChanged(l, rec) ==
    LET quickCheck == quickChangeCheck(l, rec.meta)
        fp == computeFileHashes(l)
    IN
    IF quickCheck.hasChanges /\ quickCheck.reason # ""
    THEN [ thrown |-> FALSE, changed |-> TRUE, reason |-> quickCheck.reason,
           hash |-> fp.contents ]
    ELSE IF rec.hash.st = "unreadable"
    THEN [ thrown |-> TRUE, changed |-> FALSE, reason |-> "readFileSync",
           hash |-> <<>> ]
    ELSE LET referenceContents ==
                 IF rec.hash.st = "ok" THEN rec.hash.contents ELSE <<>>
         IN IF FullCompare(fp.contents, referenceContents)
            THEN [ thrown |-> FALSE, changed |-> TRUE,
                   reason |-> "Content changed", hash |-> fp.contents ]
            ELSE [ thrown |-> FALSE, changed |-> FALSE, reason |-> "",
                   hash |-> fp.contents ]

(***************************************************************************)
(* The state.                                                              *)
(***************************************************************************)
VARIABLES
    relativeDependencies, \* the declared names, in the manifest's order
    regularDep,           \* name -> also a normal or dev dependency?
    lib,                  \* name -> the library's source tree
    env,                  \* name -> what the package manager does there
    store,                \* name -> the .hash and .metadata.json files
    options,              \* force, clean, parallel, maxConcurrency
    now,                  \* the clock that stamps modification times
    pc,                   \* where installRelativeDeps stands
    result,               \* how the run ended, and its exit status
    tasks,                \* the sorted task list of a parallel run
    completed, processing, errors,
    raceSet,              \* the tasks whose promises Promise.race awaits
    stage,                \* name -> where its processing stands
    hashStore,            \* name -> the HashStore of its processing
    cur,                  \* the index of the sequential loop
    installed,            \* name -> unpacked into the consumer's node_modules?
    runs, edits,          \* runs begun, edits made
    started, invoked,     \* name -> starts, executor invocations, this run
    verdict,              \* name -> the change detector's answer, this run
    prev,                 \* the previous run: its result, verdicts, store
    dirty,                \* what was edited since the previous run ended
    procs,                \* the install processes running side by side
    archive,              \* is the packed .tgz in the library's directory?
    manifest,             \* the consumer's package.json, for init and add
    shell,                \* the init or add command that is running
    watch                 \* watch mode: its timers and the runs in flight

vars ==
    << relativeDependencies, regularDep, lib, env, store, options, now, pc,
       result, tasks, completed, processing, errors, raceSet, stage,
       hashStore, cur, installed, runs, edits, started, invoked, verdict,
       prev, dirty, procs, archive, manifest, shell, watch >>

\* the part of the state a run leaves alone
inputs ==
    << relativeDependencies, regularDep, env, options, procs, archive,
       manifest, shell, watch >>

(***************************************************************************)
(* The consumer's manifest as init and add read and write it.              *)
(***************************************************************************)
\* the values a lookup in the scripts object can give: no value, a command
\* (its parts, joined by " && "; no part is the empty string), or the
\* function that every object inherits under Inherited
Undefined == [type |-> "undefined"]
Function == [type |-> "function"]
String(parts) == [type |-> "string", parts |-> parts]

ScriptNames == {"prepare", "build", Inherited}
PkgNames == {"A", "B"}

\* no package.json in play, no command, no watcher
NoManifest ==
    [scripts |-> [s \in ScriptNames |-> Undefined],
     relativeDependencies |-> [present |-> FALSE,
                               entries |-> [n \in PkgNames |-> ""]],
     devDependency |-> FALSE]
NoShell == [step |-> "none"]
NoWatch == [on |-> FALSE]
NoCommand == manifest = NoManifest /\ shell = NoShell /\ watch = NoWatch

Range(s) == {s[i] : i \in 1..Len(s)}
Declared == Range(relativeDependencies)

\* a library as createMockLibrary lays it out: a manifest with a build
\* script and one source file, never installed, never built
PlainLib ==
    [ exists |-> TRUE, pkg |-> "ok", nameOk |-> TRUE, version |-> "1.0.0",
      deps |-> {}, devDeps |-> {}, peerDeps |-> {}, build |-> "b1",
      src |-> 1, srcOk |-> TRUE, ignoreAll |-> FALSE, nodeModules |-> FALSE,
      dist |-> 0,
      mt |-> [f \in ImportantFiles |->
                 IF f \in {"package.json", "src"} THEN 1 ELSE 0] ]

NoRecord == [hash |-> NoHashFile, meta |-> NoMetadata]
\* the record a successful processing of the tree leaves behind
FreshRecord(l) ==
    [ hash |-> HashFileOf(computeFileHashes(l).contents),
      meta |-> createChangeMetadata(l).meta ]

\* const hashStore = { hash: "", file: "", metadataFile: "" }
EmptyHashStore ==
    [hash |-> <<>>, file |-> "", metadataFile |-> "", metadata |-> NoMetadata]

NoVerdict == [st |-> "none", reason |-> ""]
NoResult == [how |-> "none", code |-> 0]
NoPrev == [result |-> NoResult, verdict |-> [n \in Names |-> NoVerdict],
           store |-> [n \in Names |-> NoRecord],
           invoked |-> [n \in Names |-> 0], edits |-> 0]

(***************************************************************************)
(* The dependency graph and its order.                                     *)
(***************************************************************************)
\* if (relativeDependencies[depName]): the value found under the key is
\* truthy.  It is the path of a declared name (a path is not empty), or
\* what the object inherits under that key from Object.prototype
lookupIsTruthy(relDeps, depName) ==
    depName \in Range(relDeps) \/ depName = Inherited

\* a graph builder that gives no task to a library whose manifest it
\* cannot read (a mutant)
buildDependencyGraphStrict(relDeps, libs) ==
    LET readable == SelectSeq(relDeps, LAMBDA n : libs[n].exists
                                                  /\ libs[n].pkg = "ok")
    IN [ i \in 1..Len(readable) |->
           [ name |-> readable[i],
             dependencies |->
                 SelectSeq(KeyOrder,
                           LAMBDA d : d \in (libs[readable[i]].deps
                                             \cup libs[readable[i]].devDeps
                                             \cup libs[readable[i]].peerDeps)
                                      /\ d \in Range(relDeps)) ] ]

\* buildDependencyGraph: one task per declared name; its dependencies are
\* the keys of the manifest's three dependency objects whose lookup in
\* relativeDependencies is truthy; a library whose manifest is missing or
\* unparsable has none
buildDependencyGraph(relDeps, libs) ==
    [ i \in 1..Len(relDeps) |->
        LET name == relDeps[i]
            l == libs[name]
            allDeps == l.deps \cup l.devDeps \cup l.peerDeps
        IN [ name |-> name,
             dependencies |->
                 IF l.exists /\ l.pkg = "ok"
                 THEN SelectSeq(KeyOrder,
                                LAMBDA d : d \in allDeps
                                           /\ lookupIsTruthy(relDeps, d))
                 ELSE <<>> ] ]

TaskOf(ts, name) == ts[CHOOSE i \in 1..Len(ts) : ts[i].name = name]

\* topologicalSort's visit: st holds visited, visiting and result
RECURSIVE visit(_, _, _), visitEach(_, _, _, _)
visit(ts, taskName, st) ==
    IF taskName \in st.visited THEN st
    ELSE IF taskName \in st.visiting
    THEN [st EXCEPT !.warned = TRUE]
    ELSE LET task == TaskOf(ts, taskName)
             entered == [st EXCEPT !.visiting = @ \cup {taskName}]
             after == visitEach(ts, task.dependencies, 1, entered)
         IN [after EXCEPT !.result = Append(@, task),
                          !.visited = @ \cup {taskName},
                          !.visiting = @ \ {taskName}]

\* the loops `for (const dep of task.dependencies)` and
\* `for (const task of tasks)`: visit names[i], names[i+1], ..., each
\* when taskMap has it (the names of the tasks themselves always are)
visitEach(ts, names, i, st) ==
    IF i > Len(names) THEN st
    ELSE visitEach(ts, names, i + 1,
                   IF \E k \in 1..Len(ts) : ts[k].name = names[i]
                   THEN visit(ts, names[i], st) ELSE st)

topologicalSortState(ts) ==
    visitEach(ts, [i \in 1..Len(ts) |-> ts[i].name], 1,
              [visited |-> {}, visiting |-> {}, result |-> <<>>,
               warned |-> FALSE])

\* a sort that returns its input as it is (a mutant)
topologicalSortUnsorted(ts) == ts

topologicalSort(ts) == topologicalSortState(ts).result

\* getReadyTasks without its test of the dependencies (a mutant)
getReadyTasksAnyOrder(ts, done, running) ==
    SelectSeq(ts, LAMBDA t : t.name \notin done /\ t.name \notin running)

\* getReadyTasks without the test of `processing` (a mutant)
getReadyTasksRunningToo(ts, done, running) ==
    SelectSeq(ts, LAMBDA t :
        /\ t.name \notin done
        /\ \A d \in Range(t.dependencies) : d \in done)

\* getReadyTasks: not completed, not processing, every dependency completed
getReadyTasks(ts, done, running) ==
    SelectSeq(ts, LAMBDA t :
        /\ t.name \notin done
        /\ t.name \notin running
        /\ \A d \in Range(t.dependencies) : d \in done)

\* Array.prototype.slice(0, end)
slice(s, end) ==
    LET stop == IF end < 0 THEN Max(Len(s) + end, 0)
                ELSE IF end > Len(s) THEN Len(s) ELSE end
    IN SubSeq(s, 1, stop)

\* one task too many, one task too few (mutants)
roomOneMore(maxConcurrency, running) ==
    maxConcurrency - Cardinality(running) + 1
roomOneLess(maxConcurrency, running) ==
    maxConcurrency - Cardinality(running) - 1

\* maxConcurrency - processing.size
room(maxConcurrency, running) == maxConcurrency - Cardinality(running)

(***************************************************************************)
(* The executor: build, pack and install (src/src/builder.ts).             *)
(***************************************************************************)
\* buildLibrary that does not notice a failed install or build (a mutant)
buildLibraryUnchecked(l, e, t) ==
    [ how |-> "ok", msg |-> "",
      lib |-> [l EXCEPT !.nodeModules = TRUE, !.dist = 1, !.mt["dist"] = t] ]

\* buildLibrary at time t: install when node_modules is missing (it
\* writes the lockfile), parse package.json, check the name, run the build
\* script when there is one.  The build script of the model writes dist
\* and nothing else: an output directory that findFiles ignores.
\* how: "ok", "throw", "exit"
buildLibrary(l, e, t) ==
    IF ~l.nodeModules /\ e = "installFails"
    THEN [how |-> "throw", msg |-> "Install failed", lib |-> l]
    ELSE LET inst == IF l.nodeModules THEN l
                     ELSE [l EXCEPT !.nodeModules = TRUE,
                                    !.mt["package-lock.json"] = t]
         IN IF inst.pkg # "ok"
            THEN [how |-> "throw", msg |-> "JSON.parse", lib |-> inst]
            ELSE IF ~inst.nameOk
            THEN [how |-> "exit", msg |-> "Mismatch in package name",
                  lib |-> inst]
            ELSE IF inst.build = ""
            THEN [how |-> "ok", msg |-> "", lib |-> inst]
            ELSE IF e = "buildFails"
            THEN [how |-> "throw", msg |-> "Build failed", lib |-> inst]
            ELSE [how |-> "ok", msg |-> "",
                  lib |-> [inst EXCEPT !.dist = 1, !.mt["dist"] = t]]

\* packAndInstallLibrary that does not notice a failed pack (a mutant)
packAndInstallLibraryUnchecked(e) == [how |-> "ok", msg |-> ""]

\* packAndInstallLibrary: pack, replace the installed copy, delete the
\* archive; does it throw?
packAndInstallLibrary(e) ==
    IF e = "packFails"
    THEN [how |-> "throw", msg |-> "Pack failed"]
    ELSE [how |-> "ok", msg |-> ""]

(***************************************************************************)
(* installRelativeDeps: the start of a run.                                *)
(***************************************************************************)
\* a clean that deletes the record of every name (a mutant)
cleanEveryCache(st, packageNames) == [n \in Names |-> NoRecord]

\* cleanRelativeDepsCaches: unlink both files of every name given
cleanRelativeDepsCaches(st, packageNames) ==
    [n \in Names |-> IF n \in packageNames THEN NoRecord ELSE st[n]]

StoreAtStart ==
    IF options.clean THEN cleanRelativeDepsCaches(store, Declared) ELSE store

UseParallel == options.parallel /\ Len(relativeDependencies) > 1

\* the answer of libraryHasChanged as the run records it
VerdictOf(r) ==
    [ st |-> IF r.thrown THEN "threw"
             ELSE IF r.changed THEN "changed" ELSE "unchanged",
      reason |-> r.reason ]

\* libraryHasChanged sets hashStore.file and hashStore.metadataFile before
\* anything can throw, hashStore.hash once the fingerprint is computed
HashStoreOf(n, r) ==
    [hash |-> r.hash, file |-> n, metadataFile |-> n, metadata |-> NoMetadata]

\* the parallel branch: build the graph, sort it, enter the scheduler
BeginParallel ==
    /\ pc = "idle"
    /\ UseParallel
    /\ store' = StoreAtStart
    /\ tasks' = topologicalSort(buildDependencyGraph(relativeDependencies, lib))
    /\ pc' = "loop"
    /\ runs' = runs + 1
    /\ UNCHANGED << inputs, lib, now, result, completed, processing, errors,
                    raceSet, stage, hashStore, cur, installed, edits, started,
                    invoked, verdict, prev, dirty >>

(***************************************************************************)
(* processPackagesInParallel.                                              *)
(***************************************************************************)
\* is the process alive with the scheduler running?
Active == pc \in {"loop", "race", "sleep", "drain"}

LoopGuard == Cardinality(completed) < Len(tasks) /\ Len(errors) = 0

\* what processTask does with a task before its first await
Kind(n) ==
    IF ~lib[n].exists
    THEN IF regularDep[n] THEN "skip" ELSE "unresolved"
    ELSE IF options.force THEN "build" ELSE "detect"

\* the catch block of processTask
Fail(n, msg) ==
    /\ errors' = Append(errors, [name |-> n, msg |-> msg])
    /\ completed' = completed \cup {n}
    /\ processing' = processing \ {n}
    /\ stage' = [stage EXCEPT ![n] = "failed"]

\* the end of the try block of processTask
Finish(n) ==
    /\ completed' = completed \cup {n}
    /\ processing' = processing \ {n}
    /\ stage' = [stage EXCEPT ![n] = "done"]
    /\ UNCHANGED errors

\* the loop body with ready tasks: start up to maxConcurrency -
\* processing.size of them, each running to its first await
StartWave ==
    /\ pc = "loop"
    /\ LoopGuard
    /\ LET readyTasks == getReadyTasks(tasks, completed, processing)
           tasksToStart ==
               slice(readyTasks, room(options.maxConcurrency, processing))
           names == [i \in 1..Len(tasksToStart) |-> tasksToStart[i].name]
           unresolved == SelectSeq(names, LAMBDA n : Kind(n) = "unresolved")
       IN /\ Len(readyTasks) > 0
          /\ \A n \in Range(names) : started[n] < MaxStarts
          /\ processing' = processing \cup
                 {n \in Range(names) : Kind(n) \in {"detect", "build"}}
          /\ completed' = completed \cup Range(unresolved)
          /\ errors' = errors \o
                 [i \in 1..Len(unresolved) |->
                     [name |-> unresolved[i],
                      msg |-> "Failed to resolve dependency"]]
          /\ stage' = [n \in Names |->
                 IF n \notin Range(names) THEN stage[n]
                 ELSE CASE Kind(n) = "skip" -> "skipped"
                        [] Kind(n) = "unresolved" -> "failed"
                        [] OTHER -> Kind(n)]
          /\ started' = [n \in Names |->
                 IF n \in Range(names) THEN started[n] + 1 ELSE started[n]]
          /\ hashStore' = [n \in Names |->
                 IF n \in Range(names) THEN EmptyHashStore ELSE hashStore[n]]
          /\ raceSet' = Range(names)
          \* no promise to await: the loop spins without yielding
          /\ pc' = IF Len(names) > 0 THEN "race" ELSE "spin"
    /\ UNCHANGED << inputs, lib, store, now, result, tasks, cur, installed,
                    runs, edits, invoked, verdict, prev, dirty >>

\* a stuck message that names the first remaining task only (a mutant)
stuckTasksFirst(ts, done) ==
    LET remainingTasks == SelectSeq(ts, LAMBDA t : t.name \notin done)
    IN [i \in 1..(IF Len(remainingTasks) > 0 THEN 1 ELSE 0) |->
           [name |-> remainingTasks[i].name,
            waitingFor |-> SelectSeq(remainingTasks[i].dependencies,
                                     LAMBDA d : d \notin done)]]

\* remainingTasks.map(...): each task that is not completed, with those of
\* its dependencies that are not completed
stuckTasks(ts, done) ==
    LET remainingTasks == SelectSeq(ts, LAMBDA t : t.name \notin done)
    IN [i \in 1..Len(remainingTasks) |->
           [name |-> remainingTasks[i].name,
            waitingFor |-> SelectSeq(remainingTasks[i].dependencies,
                                     LAMBDA d : d \notin done)]]

\* no task ready and none processing: the run throws
Stuck ==
    /\ pc = "loop"
    /\ LoopGuard
    /\ Len(getReadyTasks(tasks, completed, processing)) = 0
    /\ processing = {}
    /\ pc' = "done"
    /\ result' = [how |-> "stuck", code |-> 1,
                  remaining |-> stuckTasks(tasks, completed)]
    /\ UNCHANGED << inputs, lib, store, now, tasks, completed, processing,
                    errors, raceSet, stage, hashStore, cur, installed, runs,
                    edits, started, invoked, verdict, prev, dirty >>

\* no task ready, some processing: sleep 100 ms
Wait ==
    /\ pc = "loop"
    /\ LoopGuard
    /\ Len(getReadyTasks(tasks, completed, processing)) = 0
    /\ processing # {}
    /\ pc' = "sleep"
    /\ UNCHANGED << inputs, lib, store, now, result, tasks, completed,
                    processing, errors, raceSet, stage, hashStore, cur,
                    installed, runs, edits, started, invoked, verdict, prev,
                    dirty >>

\* the timer of the sleep fires
Wake ==
    /\ pc = "sleep"
    /\ pc' = "loop"
    /\ UNCHANGED << inputs, lib, store, now, result, tasks, completed,
                    processing, errors, raceSet, stage, hashStore, cur,
                    installed, runs, edits, started, invoked, verdict, prev,
                    dirty >>

\* Promise.race settles: one of the wave's promises has settled
Race ==
    /\ pc = "race"
    /\ \E n \in raceSet : n \notin processing
    /\ pc' = "loop"
    /\ raceSet' = {}
    /\ UNCHANGED << inputs, lib, store, now, result, tasks, completed,
                    processing, errors, stage, hashStore, cur, installed,
                    runs, edits, started, invoked, verdict, prev, dirty >>

\* the loop condition fails: go and wait for the tasks still processing
LeaveLoop ==
    /\ pc = "loop"
    /\ ~LoopGuard
    /\ pc' = "drain"
    /\ UNCHANGED << inputs, lib, store, now, result, tasks, completed,
                    processing, errors, raceSet, stage, hashStore, cur,
                    installed, runs, edits, started, invoked, verdict, prev,
                    dirty >>

\* nothing is processing any more: exit 1 when an error was recorded
Drain ==
    /\ pc = "drain"
    /\ processing = {}
    /\ pc' = "done"
    /\ result' = IF Len(errors) > 0 THEN [how |-> "errors", code |-> 1]
                 ELSE [how |-> "return", code |-> 0]
    /\ UNCHANGED << inputs, lib, store, now, tasks, completed, processing,
                    errors, raceSet, stage, hashStore, cur, installed, runs,
                    edits, started, invoked, verdict, prev, dirty >>

(***************************************************************************)
(* processTask, from its first await on.                                   *)
(***************************************************************************)
\* await libraryHasChanged(...)
TaskDetect(n) ==
    /\ Active
    /\ stage[n] = "detect"
    /\ LET r == libraryHasChanged(lib[n], store[n]) IN
       /\ hashStore' = [hashStore EXCEPT ![n] = HashStoreOf(n, r)]
       /\ verdict' = [verdict EXCEPT ![n] = VerdictOf(r)]
       /\ IF r.thrown THEN Fail(n, r.reason)
          ELSE IF r.changed
          THEN /\ stage' = [stage EXCEPT ![n] = "build"]
               /\ UNCHANGED << completed, processing, errors >>
          ELSE Finish(n)
    /\ UNCHANGED << inputs, lib, store, now, pc, result, tasks, raceSet, cur,
                    installed, runs, edits, started, invoked, prev, dirty >>

\* await buildLibrary(...); a name mismatch ends the process at once
TaskBuild(n) ==
    /\ Active
    /\ stage[n] = "build"
    /\ LET b == buildLibrary(lib[n], env[n], now + 1) IN
       /\ lib' = [lib EXCEPT ![n] = b.lib]
       /\ now' = now + 1
       /\ invoked' = [invoked EXCEPT ![n] = @ + 1]
       /\ CASE b.how = "ok" ->
                 /\ stage' = [stage EXCEPT ![n] = "pack"]
                 /\ UNCHANGED << completed, processing, errors, pc, result >>
            [] b.how = "throw" ->
                 /\ Fail(n, b.msg)
                 /\ UNCHANGED << pc, result >>
            [] OTHER ->
                 /\ pc' = "done"
                 /\ result' = [how |-> "exit", code |-> 1]
                 /\ UNCHANGED << completed, processing, errors, stage >>
    /\ UNCHANGED << inputs, store, tasks, raceSet, hashStore, cur, installed,
                    runs, edits, started, verdict, prev, dirty >>

\* await packAndInstallLibrary(...)
TaskPack(n) ==
    /\ Active
    /\ stage[n] = "pack"
    /\ LET p == packAndInstallLibrary(env[n]) IN
       IF p.how = "ok"
       THEN /\ installed' = [installed EXCEPT ![n] = TRUE]
            /\ stage' = [stage EXCEPT ![n] = "writeHash"]
            /\ UNCHANGED << completed, processing, errors >>
       ELSE /\ Fail(n, p.msg)
            /\ UNCHANGED installed
    /\ UNCHANGED << inputs, lib, store, now, pc, result, tasks, raceSet,
                    hashStore, cur, runs, edits, started, invoked, verdict,
                    prev, dirty >>

\* fs.writeFileSync(hashStore.file, hashStore.hash): what it leaves in the
\* store, or thrown when hashStore.file is still ""
\* a write of the .hash file that leaves it empty (a mutant)
writeHashBlank(rec, hs) ==
    IF hs.file = ""
    THEN [thrown |-> TRUE, rec |-> rec]
    ELSE [thrown |-> FALSE, rec |-> [rec EXCEPT !.hash = HashFileOf(<<>>)]]

writeHash(rec, hs) ==
    IF hs.file = ""
    THEN [thrown |-> TRUE, rec |-> rec]
    ELSE [thrown |-> FALSE, rec |-> [rec EXCEPT !.hash = HashFileOf(hs.hash)]]

\* the hash is written, then createChangeMetadata is called and awaited
TaskWriteHash(n) ==
    /\ Active
    /\ stage[n] = "writeHash"
    /\ LET w == writeHash(store[n], hashStore[n])
           m == createChangeMetadata(lib[n])
       IN /\ store' = [store EXCEPT ![n] = w.rec]
          /\ IF w.thrown
             THEN Fail(n, "ENOENT") /\ UNCHANGED hashStore
             ELSE IF hashStore[n].metadataFile = ""
             THEN Finish(n) /\ UNCHANGED hashStore
             ELSE IF m.thrown
             THEN Fail(n, "JSON.parse") /\ UNCHANGED hashStore
             ELSE /\ hashStore' =
                         [hashStore EXCEPT ![n].metadata = m.meta]
                  /\ stage' = [stage EXCEPT ![n] = "writeMeta"]
                  /\ UNCHANGED << completed, processing, errors >>
    /\ UNCHANGED << inputs, lib, now, pc, result, tasks, raceSet, cur,
                    installed, runs, edits, started, invoked, verdict, prev,
                    dirty >>

\* fs.writeFileSync(hashStore.metadataFile, ...), then completed.add
TaskWriteMeta(n) ==
    /\ Active
    /\ stage[n] = "writeMeta"
    /\ store' = [store EXCEPT ![n].meta = hashStore[n].metadata]
    /\ Finish(n)
    /\ UNCHANGED << inputs, lib, now, pc, result, tasks, raceSet, hashStore,
                    cur, installed, runs, edits, started, invoked, verdict,
                    prev, dirty >>

(***************************************************************************)
(* The sequential loop of installRelativeDeps.                             *)
(***************************************************************************)
BeginSequential ==
    /\ pc = "idle"
    /\ ~UseParallel
    /\ store' = StoreAtStart
    /\ pc' = "seq"
    /\ cur' = 1
    /\ runs' = runs + 1
    /\ UNCHANGED << inputs, lib, now, result, tasks, completed, processing,
                    errors, raceSet, stage, hashStore, installed, edits,
                    started, invoked, verdict, prev, dirty >>

End(how, code) ==
    /\ pc' = "done"
    /\ result' = [how |-> how, code |-> code]

\* the head of the loop body: the directory test and the change detection
SeqCheck ==
    /\ pc = "seq"
    /\ IF cur > Len(relativeDependencies)
       THEN /\ End("return", 0)
            /\ UNCHANGED << cur, stage, hashStore, started, verdict >>
       ELSE LET n == relativeDependencies[cur]
                r == libraryHasChanged(lib[n], store[n])
            IN /\ started' = [started EXCEPT ![n] = @ + 1]
               /\ CASE Kind(n) = "skip" ->
                         /\ End("return", 0)
                         /\ stage' = [stage EXCEPT ![n] = "skipped"]
                         /\ UNCHANGED << cur, hashStore, verdict >>
                    [] Kind(n) = "unresolved" ->
                         /\ End("unresolved", 1)
                         /\ stage' = [stage EXCEPT ![n] = "failed"]
                         /\ UNCHANGED << cur, hashStore, verdict >>
                    [] Kind(n) = "build" ->
                         /\ pc' = "seqBuild"
                         /\ stage' = [stage EXCEPT ![n] = "build"]
                         /\ hashStore' =
                                [hashStore EXCEPT ![n] = EmptyHashStore]
                         /\ UNCHANGED << cur, result, verdict >>
                    [] OTHER ->
                         /\ hashStore' =
                                [hashStore EXCEPT ![n] = HashStoreOf(n, r)]
                         /\ verdict' = [verdict EXCEPT ![n] = VerdictOf(r)]
                         /\ IF r.thrown
                            THEN /\ End("throw", 1)
                                 /\ stage' = [stage EXCEPT ![n] = "failed"]
                                 /\ UNCHANGED cur
                            ELSE IF r.changed
                            THEN /\ pc' = "seqBuild"
                                 /\ stage' = [stage EXCEPT ![n] = "build"]
                                 /\ UNCHANGED << cur, result >>
                            ELSE /\ cur' = cur + 1
                                 /\ stage' = [stage EXCEPT ![n] = "done"]
                                 /\ UNCHANGED << pc, result >>
    /\ UNCHANGED << inputs, lib, store, now, tasks, completed, processing,
                    errors, raceSet, installed, runs, edits, invoked, prev,
                    dirty >>

\* the catch of the sequential loop: report and process.exit(1)
SeqFail(n, msg) ==
    /\ End("errors", 1)
    /\ errors' = Append(errors, [name |-> n, msg |-> msg])
    /\ stage' = [stage EXCEPT ![n] = "failed"]

SeqBuild ==
    /\ pc = "seqBuild"
    /\ LET n == relativeDependencies[cur]
           b == buildLibrary(lib[n], env[n], now + 1)
       IN /\ lib' = [lib EXCEPT ![n] = b.lib]
          /\ now' = now + 1
          /\ invoked' = [invoked EXCEPT ![n] = @ + 1]
          /\ CASE b.how = "ok" ->
                    /\ pc' = "seqPack"
                    /\ stage' = [stage EXCEPT ![n] = "pack"]
                    /\ UNCHANGED << result, errors >>
               [] b.how = "throw" -> SeqFail(n, b.msg)
               [] OTHER ->
                    /\ End("exit", 1)
                    /\ UNCHANGED << stage, errors >>
    /\ UNCHANGED << inputs, store, tasks, completed, processing, raceSet,
                    hashStore, cur, installed, runs, edits, started, verdict,
                    prev, dirty >>

SeqPack ==
    /\ pc = "seqPack"
    /\ LET n == relativeDependencies[cur]
           p == packAndInstallLibrary(env[n])
       IN IF p.how = "ok"
          THEN /\ installed' = [installed EXCEPT ![n] = TRUE]
               /\ pc' = "seqWriteHash"
               /\ stage' = [stage EXCEPT ![n] = "writeHash"]
               /\ UNCHANGED << result, errors >>
          ELSE /\ SeqFail(n, p.msg)
               /\ UNCHANGED installed
    /\ UNCHANGED << inputs, lib, store, now, tasks, completed, processing,
                    raceSet, hashStore, cur, runs, edits, started, invoked,
                    verdict, prev, dirty >>

SeqWriteHash ==
    /\ pc = "seqWriteHash"
    /\ LET n == relativeDependencies[cur]
           w == writeHash(store[n], hashStore[n])
           m == createChangeMetadata(lib[n])
       IN /\ store' = [store EXCEPT ![n] = w.rec]
          /\ IF w.thrown
             THEN SeqFail(n, "ENOENT") /\ UNCHANGED << hashStore, cur >>
             ELSE IF hashStore[n].metadataFile = ""
             THEN /\ pc' = "seq"
                  /\ cur' = cur + 1
                  /\ stage' = [stage EXCEPT ![n] = "done"]
                  /\ UNCHANGED << result, errors, hashStore >>
             ELSE IF m.thrown
             THEN SeqFail(n, "JSON.parse") /\ UNCHANGED << hashStore, cur >>
             ELSE /\ hashStore' =
                         [hashStore EXCEPT ![n].metadata = m.meta]
                  /\ pc' = "seqWriteMeta"
                  /\ stage' = [stage EXCEPT ![n] = "writeMeta"]
                  /\ UNCHANGED << result, errors, cur >>
    /\ UNCHANGED << inputs, lib, now, tasks, completed, processing, raceSet,
                    installed, runs, edits, started, invoked, verdict, prev,
                    dirty >>

SeqWriteMeta ==
    /\ pc = "seqWriteMeta"
    /\ LET n == relativeDependencies[cur] IN
       /\ store' = [store EXCEPT ![n].meta = hashStore[n].metadata]
       /\ stage' = [stage EXCEPT ![n] = "done"]
    /\ pc' = "seq"
    /\ cur' = cur + 1
    /\ UNCHANGED << inputs, lib, now, result, tasks, completed, processing,
                    errors, raceSet, hashStore, installed, runs, edits,
                    started, invoked, verdict, prev, dirty >>

(***************************************************************************)
(* The environment between two runs: the command is run again, the        *)
(* developer edits the library.                                            *)
(***************************************************************************)
IdleStage == [n \in Names |-> "idle"]
NoCounts == [n \in Names |-> 0]

\* the command is run again: remember how the last run ended
Again ==
    /\ pc = "done"
    /\ runs < MaxRuns
    /\ pc' = "idle"
    /\ prev' = [result |-> result, verdict |-> verdict, store |-> store,
                invoked |-> invoked, edits |-> edits]
    /\ dirty' = {}
    /\ result' = NoResult
    /\ tasks' = <<>>
    /\ completed' = {}
    /\ processing' = {}
    /\ errors' = <<>>
    /\ raceSet' = {}
    /\ stage' = IdleStage
    /\ hashStore' = [n \in Names |-> EmptyHashStore]
    /\ cur' = 0
    /\ started' = NoCounts
    /\ invoked' = NoCounts
    /\ verdict' = [n \in Names |-> NoVerdict]
    /\ UNCHANGED << inputs, lib, store, now, installed, runs, edits >>

\* the contents a source file may have
Contents == 1..2

\* the developer rewrites an included source file (the directory that
\* holds it keeps its modification time)
EditSource(n) ==
    /\ pc = "idle"
    /\ edits < MaxEdits
    /\ lib[n].exists /\ lib[n].src > 0
    /\ \E c \in Contents \ {lib[n].src} :
          lib' = [lib EXCEPT ![n].src = c]
    /\ edits' = edits + 1
    /\ dirty' = dirty \cup {<<n, "file">>}
    /\ UNCHANGED << inputs, store, now, pc, result, tasks, completed,
                    processing, errors, raceSet, stage, hashStore, cur,
                    installed, runs, started, invoked, verdict, prev >>

\* the manifests one edit of field `what` can make of manifest l
Rewritten(l, what) ==
    CASE what = "version" ->
             {[l EXCEPT !.version = v] : v \in Versions \ {l.version}}
      [] what = "dependency" ->
             {[l EXCEPT !.deps = IF External \in @ THEN @ \ {External}
                                ELSE @ \cup {External}]}
      [] what = "devDependency" ->
             {[l EXCEPT !.devDeps = IF External \in @ THEN @ \ {External}
                                   ELSE @ \cup {External}]}
      [] OTHER ->
             {[l EXCEPT !.build = b] : b \in BuildScripts \ {l.build}}

ManifestFields == {"version", "dependency", "devDependency", "build"}

\* the developer rewrites package.json, changing one field
EditManifest(n) ==
    /\ pc = "idle"
    /\ edits < MaxEdits
    /\ lib[n].exists /\ lib[n].pkg = "ok"
    /\ \E what \in ManifestFields :
          /\ \E l \in Rewritten(lib[n], what) :
                lib' = [lib EXCEPT ![n] =
                           [l EXCEPT !.mt["package.json"] = now + 1]]
          /\ dirty' = dirty \cup {<<n, what>>}
    /\ now' = now + 1
    /\ edits' = edits + 1
    /\ UNCHANGED << inputs, store, pc, result, tasks, completed, processing,
                    errors, raceSet, stage, hashStore, cur, installed, runs,
                    started, invoked, verdict, prev >>

\* the paths of a library that findFiles leaves out of the fingerprint
ExcludedPaths == {"package-lock.json", "dist", "dist/index.js", "node_modules"}

\* something outside the fingerprint changes: the lockfile is rewritten, a
\* file is added to dist (the directory gets a new modification time), the
\* built file is rewritten in place, a module is reinstalled
EditExcluded(n) ==
    /\ pc = "idle"
    /\ edits < MaxEdits
    /\ lib[n].exists
    /\ \E what \in ExcludedPaths :
          /\ CASE what = "package-lock.json" ->
                    /\ lib[n].mt[what] > 0
                    /\ lib' = [lib EXCEPT ![n].mt[what] = now + 1]
               [] what = "dist" ->
                    /\ lib[n].dist > 0
                    /\ lib' = [lib EXCEPT ![n].mt[what] = now + 1]
               [] what = "dist/index.js" ->
                    /\ lib[n].dist > 0
                    /\ lib' = [lib EXCEPT ![n].dist = 3 - @]
               [] OTHER ->
                    /\ lib[n].nodeModules
                    /\ UNCHANGED lib
          /\ dirty' = dirty \cup {<<n, what>>}
    /\ now' = now + 1
    /\ edits' = edits + 1
    /\ UNCHANGED << inputs, store, pc, result, tasks, completed, processing,
                    errors, raceSet, stage, hashStore, cur, installed, runs,
                    started, invoked, verdict, prev >>

\* the developer saves a package.json that does not parse while a run is
\* under way
BreakManifest(n) ==
    /\ pc \notin {"idle", "done"}
    /\ edits < MaxEdits
    /\ lib[n].exists /\ lib[n].pkg = "ok"
    /\ lib' = [lib EXCEPT ![n].pkg = "corrupt",
                          ![n].mt["package.json"] = now + 1]
    /\ now' = now + 1
    /\ edits' = edits + 1
    /\ dirty' = dirty \cup {<<n, "manifest">>}
    /\ UNCHANGED << inputs, store, pc, result, tasks, completed, processing,
                    errors, raceSet, stage, hashStore, cur, installed, runs,
                    started, invoked, verdict, prev >>

\* the build or the pack of the library starts to fail, or is repaired
BreakToolchain(n) ==
    /\ pc = "idle"
    /\ edits < MaxEdits
    /\ \E e \in {"ok", "buildFails", "packFails"} \ {env[n]} :
          env' = [env EXCEPT ![n] = e]
    /\ edits' = edits + 1
    /\ UNCHANGED << relativeDependencies, regularDep, options, lib, store,
                    now, pc, result, tasks, completed, processing, errors,
                    raceSet, stage, hashStore, cur, installed, runs, started,
                    invoked, verdict, prev, dirty, procs,
                    archive, manifest, shell, watch >>

\* the developer (or a lock held by another program) makes the source file
\* of library n unreadable, or readable again; its content and its
\* modification time stay
Chmod(n) ==
    /\ pc = "idle"
    /\ edits < MaxEdits
    /\ lib[n].exists /\ lib[n].src > 0
    /\ lib' = [lib EXCEPT ![n].srcOk = ~@]
    /\ edits' = edits + 1
    /\ dirty' = dirty \cup {<<n, "mode">>}
    /\ UNCHANGED << inputs, store, now, pc, result, tasks, completed,
                    processing, errors, raceSet, stage, hashStore, cur,
                    installed, runs, started, invoked, verdict, prev >>

(***************************************************************************)
(* Several install processes side by side, each the sequential loop over   *)
(* the one declared library.  They share the library's directory, the      *)
(* consumer's node_modules and the cache; nothing makes one wait for       *)
(* another.  A process moves at its awaits; what it does between two       *)
(* awaits is taken as one step.                                            *)
(***************************************************************************)
TheLib == relativeDependencies[1]

\* what belongs to the run of this model's own process, and the project
ownRun ==
    << pc, result, tasks, completed, processing, errors, raceSet, stage,
       hashStore, cur, runs, edits, started, invoked, verdict, prev, dirty >>
project ==
    << relativeDependencies, regularDep, env, options, manifest, shell,
       watch >>

ProcStart == [pc |-> "detect", code |-> 0, msg |-> "",
              hashStore |-> EmptyHashStore]

\* process p goes on to step s
ProcGoes(p, s) == procs' = [procs EXCEPT ![p].pc = s]
\* process p ends: return from installRelativeDeps, or process.exit(1)
ProcEnds(p, code, msg) ==
    procs' = [procs EXCEPT ![p].pc = "done", ![p].code = code, ![p].msg = msg]

\* await libraryHasChanged(...)
ProcDetect(p) ==
    /\ procs[p].pc = "detect"
    /\ LET r == libraryHasChanged(lib[TheLib], store[TheLib]) IN
       IF r.thrown THEN ProcEnds(p, 1, r.reason)
       ELSE IF r.changed
       THEN procs' = [procs EXCEPT ![p].pc = "build",
                                   ![p].hashStore = HashStoreOf(TheLib, r)]
       ELSE ProcEnds(p, 0, "")
    /\ UNCHANGED << ownRun, project, lib, store, now, installed, archive >>

\* await buildLibrary(...)
ProcBuild(p) ==
    /\ procs[p].pc = "build"
    /\ LET b == buildLibrary(lib[TheLib], env[TheLib], now + 1) IN
       /\ lib' = [lib EXCEPT ![TheLib] = b.lib]
       /\ now' = now + 1
       /\ IF b.how = "ok" THEN ProcGoes(p, "pack") ELSE ProcEnds(p, 1, b.msg)
    /\ UNCHANGED << ownRun, project, store, installed, archive >>

\* packAndInstallLibrary up to its await: the package manager packs the
\* library and leaves <name>-<version>.tgz in the library's directory
ProcPack(p) ==
    /\ procs[p].pc = "pack"
    /\ LET q == packAndInstallLibrary(env[TheLib]) IN
       IF q.how = "ok"
       THEN ProcGoes(p, "install") /\ archive' = TRUE
       ELSE ProcEnds(p, 1, q.msg) /\ UNCHANGED archive
    /\ UNCHANGED << ownRun, project, lib, store, now, installed >>

\* the rest of packAndInstallLibrary: remove the installed copy, look the
\* archive up with readdirSync, extract it, unlink it in the finally
ProcInstall(p) ==
    /\ procs[p].pc = "install"
    /\ IF archive
       THEN /\ installed' = [installed EXCEPT ![TheLib] = TRUE]
            /\ archive' = FALSE
            /\ ProcGoes(p, "writeHash")
       ELSE /\ installed' = [installed EXCEPT ![TheLib] = FALSE]
            /\ ProcEnds(p, 1, "Could not find packaged file")
            /\ UNCHANGED archive
    /\ UNCHANGED << ownRun, project, lib, store, now >>

\* the hash is written, then createChangeMetadata is called and awaited
ProcWriteHash(p) ==
    /\ procs[p].pc = "writeHash"
    /\ LET w == writeHash(store[TheLib], procs[p].hashStore)
           m == createChangeMetadata(lib[TheLib])
       IN /\ store' = [store EXCEPT ![TheLib] = w.rec]
          /\ IF w.thrown THEN ProcEnds(p, 1, "ENOENT")
             ELSE IF m.thrown THEN ProcEnds(p, 1, "JSON.parse")
             ELSE procs' = [procs EXCEPT ![p].pc = "writeMeta",
                                         ![p].hashStore.metadata = m.meta]
    /\ UNCHANGED << ownRun, project, lib, now, installed, archive >>

\* fs.writeFileSync(hashStore.metadataFile, ...), and the loop is over
ProcWriteMeta(p) ==
    /\ procs[p].pc = "writeMeta"
    /\ store' = [store EXCEPT ![TheLib].meta = procs[p].hashStore.metadata]
    /\ ProcEnds(p, 0, "")
    /\ UNCHANGED << ownRun, project, lib, now, installed, archive >>

ProcStep(p) ==
    \/ ProcDetect(p)
    \/ ProcBuild(p)
    \/ ProcPack(p)
    \/ ProcInstall(p)
    \/ ProcWriteHash(p)
    \/ ProcWriteMeta(p)

(***************************************************************************)
(* Initial states.                                                         *)
(***************************************************************************)
\* what the run's own variables hold before the first run
InitAlone ==
    /\ pc = "idle"
    /\ result = NoResult
    /\ tasks = <<>>
    /\ completed = {}
    /\ processing = {}
    /\ errors = <<>>
    /\ raceSet = {}
    /\ stage = IdleStage
    /\ hashStore = [n \in Names |-> EmptyHashStore]
    /\ cur = 0
    /\ installed = [n \in Names |-> FALSE]
    /\ runs = 0
    /\ edits = 0
    /\ started = NoCounts
    /\ invoked = NoCounts
    /\ verdict = [n \in Names |-> NoVerdict]
    /\ prev = NoPrev
    /\ dirty = {}
    /\ now = 2

\* the same, with no other install process at work
InitRun ==
    /\ InitAlone
    /\ NoCommand
    /\ procs = <<>>
    /\ archive = FALSE

\* the library as a successful build at time t leaves it
BuiltLib(l, t) == buildLibrary(l, "ok", t).lib

\* the kinds of library a parallel run meets
Scenarios ==
    { "changed", "unchanged", "installFails", "buildFails", "packFails",
      "mismatch", "skip", "unresolved" }

\* the library of scenario s whose manifest depends on deps
LibOf(s, deps) ==
    LET l == [PlainLib EXCEPT !.deps = deps, !.nameOk = (s # "mismatch")]
    IN CASE s \in {"skip", "unresolved"} ->
                [l EXCEPT !.exists = FALSE, !.pkg = "missing", !.src = 0,
                          !.mt = [f \in ImportantFiles |-> 0]]
         [] s = "unchanged" -> BuiltLib(l, 2)
         [] OTHER -> l

RECURSIVE SumCard(_, _)
SumCard(g, S) ==
    IF S = {} THEN 0
    ELSE LET n == CHOOSE x \in S : TRUE
         IN Cardinality(g[n]) + SumCard(g, S \ {n})

\* the dependency sets of the manifests over the names D: at most MaxEdges
\* entries, no library depends on itself
Graphs(D) ==
    { g \in [Names -> SUBSET D] :
        /\ \A n \in Names : n \notin g[n]
        /\ SumCard(g, Names) <= MaxEdges }

\* a parallel run over all the names, the libraries drawn from the
\* scenarios S, at most v of them other than "changed"
InitWith(S, D, v) ==
    /\ InitRun
    /\ relativeDependencies = NameSeq
    /\ \E sc \in [Names -> S], g \in Graphs(D) :
          /\ Cardinality({n \in Names : sc[n] # "changed"}) <= v
          /\ \A n \in Names : sc[n] \in {"skip", "unresolved"} => g[n] = {}
          /\ lib = [n \in Names |-> LibOf(sc[n], g[n])]
          /\ regularDep = [n \in Names |-> sc[n] # "unresolved"]
          /\ env = [n \in Names |->
                       IF sc[n] \in {"installFails", "buildFails", "packFails"}
                       THEN sc[n] ELSE "ok"]
          /\ store = [n \in Names |->
                         IF sc[n] = "unchanged"
                         THEN FreshRecord(LibOf(sc[n], g[n])) ELSE NoRecord]
    /\ \E c \in 1..MaxConc :
          options = [force |-> FALSE, clean |-> FALSE, parallel |-> TRUE,
                     maxConcurrency |-> c]

Init == InitWith(Scenarios, DepNames, MaxVariants)

\* the runs in which no library fails by itself: every library is there,
\* built before or not
InitLive == InitWith({"changed", "unchanged"}, Names, Len(NameSeq))

TaskStep(n) ==
    \/ TaskDetect(n)
    \/ TaskBuild(n)
    \/ TaskPack(n)
    \/ TaskWriteHash(n)
    \/ TaskWriteMeta(n)

MainStep ==
    \/ BeginParallel
    \/ StartWave
    \/ Stuck
    \/ Wait
    \/ Wake
    \/ Race
    \/ LeaveLoop
    \/ Drain

Next == MainStep \/ \E n \in Names : TaskStep(n)

Spec == Init /\ [][Next]_vars

\* the event loop runs every continuation that can run: timers fire,
\* subprocesses end, settled promises resume their awaiters
LiveSpec ==
    /\ InitLive /\ [][Next]_vars
    /\ WF_vars(MainStep)
    /\ \A n \in Names : WF_vars(TaskStep(n))

(***************************************************************************)
(* Parallel runs over libraries whose manifests may depend on each other   *)
(* in a cycle: every library is there, built before or not, one of them    *)
(* may have a failing build.                                               *)
(***************************************************************************)
\* the dependency sets with at most MaxCycleEdges entries
CycleGraphs ==
    { g \in [Names -> SUBSET Names] :
        /\ \A n \in Names : n \notin g[n]
        /\ SumCard(g, Names) <= MaxCycleEdges }

InitStuck ==
    /\ InitRun
    /\ relativeDependencies = NameSeq
    /\ regularDep = [n \in Names |-> TRUE]
    /\ \E g \in CycleGraphs, u \in SUBSET Names, f \in SUBSET {"C"} :
          /\ lib = [n \in Names |->
                       LibOf(IF n \in u THEN "unchanged" ELSE "changed", g[n])]
          /\ store = [n \in Names |->
                         IF n \in u
                         THEN FreshRecord(LibOf("unchanged", g[n]))
                         ELSE NoRecord]
          /\ env = [n \in Names |-> IF n \in f THEN "buildFails" ELSE "ok"]
    /\ \E c \in 1..2 :
          options = [force |-> FALSE, clean |-> FALSE, parallel |-> TRUE,
                     maxConcurrency |-> c]

SpecStuck == InitStuck /\ [][Next]_vars

(***************************************************************************)
(* Parallel runs over the declared libraries A and B, C is a library that  *)
(* is not declared: the manifest of A holds up to MaxEntries entries in    *)
(* its three dependency objects, over every name there is.                 *)
(***************************************************************************)
GraphNames == <<"A", "B">>
AllKeys == {KeyOrder[i] : i \in 1..Len(KeyOrder)}
DepObjects == {"deps", "devDeps", "peerDeps"}

\* the library l with the entries E, pairs of a dependency object and a key
WithEntries(l, E) ==
    [l EXCEPT !.deps = {k \in AllKeys : <<"deps", k>> \in E},
              !.devDeps = {k \in AllKeys : <<"devDeps", k>> \in E},
              !.peerDeps = {k \in AllKeys : <<"peerDeps", k>> \in E}]

InitGraph ==
    /\ InitRun
    /\ relativeDependencies = GraphNames
    /\ regularDep = [n \in Names |-> TRUE]
    /\ env = [n \in Names |-> "ok"]
    /\ store = [n \in Names |-> NoRecord]
    /\ \E E \in SUBSET (DepObjects \X AllKeys),
          p \in {"ok", "corrupt", "missing"},
          b \in SUBSET {"A"} :
          /\ Cardinality(E) <= MaxEntries
          /\ lib = [n \in Names |->
                       IF n = "A" THEN [WithEntries(PlainLib, E) EXCEPT !.pkg = p]
                       ELSE IF n = "B" THEN [PlainLib EXCEPT !.deps = b]
                       ELSE PlainLib]
    /\ \E c \in 1..2 :
          options = [force |-> FALSE, clean |-> FALSE, parallel |-> TRUE,
                     maxConcurrency |-> c]

SpecGraph == InitGraph /\ [][Next]_vars

(***************************************************************************)
(* Sequential runs, repeated, with edits of the libraries in between.      *)
(***************************************************************************)
SeqNames == {"A", "B"}

InitSeq ==
    /\ InitRun
    /\ relativeDependencies = <<"A", "B">>
    /\ lib = [n \in Names |-> PlainLib]
    /\ regularDep = [n \in Names |-> TRUE]
    /\ store = [n \in Names |-> NoRecord]
    /\ \E e \in {"ok", "buildFails", "packFails"} :
          env = [n \in Names |-> IF n = "B" THEN e ELSE "ok"]
    /\ \E f \in BOOLEAN, c \in BOOLEAN :
          options = [force |-> f, clean |-> c, parallel |-> FALSE,
                     maxConcurrency |-> 1]

SeqStep ==
    \/ BeginSequential
    \/ SeqCheck
    \/ SeqBuild
    \/ SeqPack
    \/ SeqWriteHash
    \/ SeqWriteMeta

NextSeq ==
    \/ SeqStep
    \/ Again
    \/ \E n \in SeqNames : EditSource(n)
    \/ \E n \in SeqNames : EditManifest(n)

SpecSeq == InitSeq /\ [][NextSeq]_vars

(***************************************************************************)
(* One sequential run over one library, from any source tree and any       *)
(* cache record.                                                           *)
(***************************************************************************)
\* the source trees: built and installed, with any version, either build
\* command, any content of the source file, readable or not, everything
\* ignored by .gitignore or not, the manifest written at time 1 or 2
DetectLibs ==
    { [BuiltLib(PlainLib, 1) EXCEPT
           !.version = v, !.build = b, !.src = c, !.srcOk = ok,
           !.ignoreAll = ig, !.mt["package.json"] = t] :
        v \in Versions, b \in BuildScripts \ {""}, c \in Contents,
        ok \in BOOLEAN, ig \in BOOLEAN, t \in 1..2 }

\* the cache records: each half missing, unreadable, or written by a run
\* over one of the source trees
DetectHashes ==
    {NoHashFile, UnreadableHashFile}
        \cup {HashFileOf(computeFileHashes(k).contents) : k \in DetectLibs}
DetectMetas ==
    {NoMetadata, CorruptMetadata}
        \cup {createChangeMetadata(k).meta : k \in DetectLibs}

InitDetect ==
    /\ InitRun
    /\ relativeDependencies = <<"A">>
    /\ regularDep = [n \in Names |-> TRUE]
    /\ env = [n \in Names |-> "ok"]
    /\ options = [force |-> FALSE, clean |-> FALSE, parallel |-> FALSE,
                  maxConcurrency |-> 1]
    /\ \E l \in DetectLibs :
          lib = [n \in Names |-> IF n = "A" THEN l ELSE PlainLib]
    /\ \E h \in DetectHashes, m \in DetectMetas :
          store = [n \in Names |->
                      IF n = "A" THEN [hash |-> h, meta |-> m] ELSE NoRecord]

SpecDetect == InitDetect /\ [][SeqStep]_vars

(***************************************************************************)
(* Sequential runs over one library, repeated, with changes outside the    *)
(* fingerprint in between.                                                 *)
(***************************************************************************)
InitExcl ==
    /\ InitRun
    /\ relativeDependencies = <<"A">>
    /\ lib = [n \in Names |-> PlainLib]
    /\ regularDep = [n \in Names |-> TRUE]
    /\ store = [n \in Names |-> NoRecord]
    /\ env = [n \in Names |-> "ok"]
    /\ options = [force |-> FALSE, clean |-> FALSE, parallel |-> FALSE,
                  maxConcurrency |-> 1]

NextExcl ==
    \/ SeqStep
    \/ Again
    \/ EditExcluded("A")

SpecExcl == InitExcl /\ [][NextExcl]_vars

(***************************************************************************)
(* Sequential runs over one library, repeated, from a cache record with a  *)
(* spoilt half.                                                            *)
(***************************************************************************)
CorruptRecord(rec) == rec.hash = CorruptHashFile \/ rec.meta = CorruptMetadata

InitRecover ==
    /\ InitRun
    /\ relativeDependencies = <<"A">>
    /\ regularDep = [n \in Names |-> TRUE]
    /\ options = [force |-> FALSE, clean |-> FALSE, parallel |-> FALSE,
                  maxConcurrency |-> 1]
    /\ \E e \in {"ok", "buildFails"} : env = [n \in Names |-> e]
    /\ \E l \in {PlainLib, BuiltLib(PlainLib, 1)} :
          /\ lib = [n \in Names |-> l]
          /\ \E h \in {CorruptHashFile, NoHashFile, FreshRecord(l).hash},
                m \in {CorruptMetadata, NoMetadata, FreshRecord(l).meta} :
                /\ CorruptRecord([hash |-> h, meta |-> m])
                /\ store = [n \in Names |->
                               IF n = "A" THEN [hash |-> h, meta |-> m]
                               ELSE NoRecord]

NextRecover ==
    \/ SeqStep
    \/ Again

SpecRecover == InitRecover /\ [][NextRecover]_vars

(***************************************************************************)
(* Sequential runs, repeated, a manifest being edited while a run is      *)
(* under way.                                                              *)
(***************************************************************************)
NextBreak ==
    \/ SeqStep
    \/ Again
    \/ \E n \in SeqNames : BreakManifest(n)

SpecBreak == InitSeq /\ [][NextBreak]_vars

(***************************************************************************)
(* Sequential runs over one library, repeated; between them the source is  *)
(* edited and the build or the pack breaks or is repaired.                 *)
(***************************************************************************)
NextFail ==
    \/ SeqStep
    \/ Again
    \/ EditSource("A")
    \/ BreakToolchain("A")

SpecFail == InitExcl /\ [][NextFail]_vars

(***************************************************************************)
(* Sequential runs over two libraries, repeated, each with a package       *)
(* manager that works or fails at one of its steps.                        *)
(***************************************************************************)
Toolchains == {"ok", "installFails", "buildFails", "packFails"}

InitAbort ==
    /\ InitRun
    /\ relativeDependencies = <<"A", "B">>
    /\ lib = [n \in Names |-> PlainLib]
    /\ regularDep = [n \in Names |-> TRUE]
    /\ store = [n \in Names |-> NoRecord]
    /\ \E a \in Toolchains, b \in Toolchains :
          env = [n \in Names |->
                    IF n = "A" THEN a ELSE IF n = "B" THEN b ELSE "ok"]
    /\ options = [force |-> FALSE, clean |-> FALSE, parallel |-> FALSE,
                  maxConcurrency |-> 1]

NextAbort ==
    \/ SeqStep
    \/ Again
    \/ \E n \in SeqNames : EditSource(n)

SpecAbort == InitAbort /\ [][NextAbort]_vars

(***************************************************************************)
(* Sequential runs over one library, repeated, whose source file can or    *)
(* cannot be read.                                                         *)
(***************************************************************************)
InitUnreadable ==
    /\ InitRun
    /\ relativeDependencies = <<"A">>
    /\ \E ok \in BOOLEAN :
          lib = [n \in Names |-> [PlainLib EXCEPT !.srcOk = ok]]
    /\ regularDep = [n \in Names |-> TRUE]
    /\ store = [n \in Names |-> NoRecord]
    /\ env = [n \in Names |-> "ok"]
    /\ options = [force |-> FALSE, clean |-> FALSE, parallel |-> FALSE,
                  maxConcurrency |-> 1]

NextUnreadable ==
    \/ SeqStep
    \/ Again
    \/ EditSource("A")
    \/ Chmod("A")

SpecUnreadable == InitUnreadable /\ [][NextUnreadable]_vars

(***************************************************************************)
(* One sequential run over one library whose tree differs in the content   *)
(* and the readability of its source file, in what .gitignore excludes,    *)
(* in the time its manifest was written and in whether it was built        *)
(* before; the cache record is missing or was left by a run over one of    *)
(* these trees.                                                            *)
(***************************************************************************)
FingerprintLibs ==
    { [base EXCEPT !.src = c, !.srcOk = ok, !.ignoreAll = ig,
                   !.mt["package.json"] = t] :
        base \in {PlainLib, BuiltLib(PlainLib, 1)}, c \in Contents,
        ok \in BOOLEAN, ig \in BOOLEAN, t \in 1..2 }

InitFingerprint ==
    /\ InitRun
    /\ relativeDependencies = <<"A">>
    /\ regularDep = [n \in Names |-> TRUE]
    /\ env = [n \in Names |-> "ok"]
    /\ options = [force |-> FALSE, clean |-> FALSE, parallel |-> FALSE,
                  maxConcurrency |-> 1]
    /\ \E l \in FingerprintLibs :
          lib = [n \in Names |-> IF n = "A" THEN l ELSE PlainLib]
    /\ \E r \in {NoRecord} \cup {FreshRecord(k) : k \in FingerprintLibs} :
          store = [n \in Names |-> IF n = "A" THEN r ELSE NoRecord]

SpecFingerprint == InitFingerprint /\ [][SeqStep]_vars

(***************************************************************************)
(* Install processes started side by side over one library, built before   *)
(* or not, with or without the record of an earlier run.                   *)
(***************************************************************************)
InitConcurrent ==
    /\ InitAlone
    /\ relativeDependencies = <<"A">>
    /\ regularDep = [n \in Names |-> TRUE]
    /\ env = [n \in Names |-> "ok"]
    /\ options = [force |-> FALSE, clean |-> FALSE, parallel |-> FALSE,
                  maxConcurrency |-> 1]
    /\ \E l \in {PlainLib, BuiltLib(PlainLib, 1)},
          r \in {NoRecord, FreshRecord(BuiltLib(PlainLib, 1))} :
          /\ lib = [n \in Names |-> IF n = "A" THEN l ELSE PlainLib]
          /\ store = [n \in Names |-> IF n = "A" THEN r ELSE NoRecord]
    /\ procs = [p \in 1..MaxProcs |-> ProcStart]
    /\ archive = FALSE
    /\ NoCommand

NextConcurrent == \E p \in DOMAIN procs : ProcStep(p)

SpecConcurrent == InitConcurrent /\ [][NextConcurrent]_vars

(***************************************************************************)
(* The install command of the command line (src/src/cli.ts): runs over one *)
(* or two libraries, started with any flags.                               *)
(***************************************************************************)
\* what yargs hands to the handler for the flags --force, --clean,
\* --parallel and --max-concurrency K
Argvs ==
    [force : BOOLEAN, clean : BOOLEAN, parallel : BOOLEAN,
     maxConcurrency : 1..MaxConc]

\* the handler of the default command calls installRelativeDeps with
\* force, clean and verbose; installRelativeDeps gives the options it was
\* not handed their defaults: parallel = false, maxConcurrency = 1
defaultCommand(argv) ==
    [force |-> argv.force, clean |-> argv.clean, parallel |-> FALSE,
     maxConcurrency |-> 1]

InitCli ==
    /\ InitRun
    /\ relativeDependencies \in {<<"A">>, <<"A", "B">>}
    /\ lib = [n \in Names |-> PlainLib]
    /\ regularDep = [n \in Names |-> TRUE]
    /\ store = [n \in Names |-> NoRecord]
    /\ env = [n \in Names |-> "ok"]
    /\ \E argv \in Argvs : options = defaultCommand(argv)

\* the parallel branch of installRelativeDeps is never entered from here
NextCli ==
    \/ SeqStep
    \/ Again
    \/ \E n \in SeqNames : EditSource(n)

SpecCli == InitCli /\ [][NextCli]_vars

(***************************************************************************)
(* Sequential runs over two libraries, with or without clean, from a store *)
(* that holds a record for every name, the undeclared one too.             *)
(***************************************************************************)
InitClean ==
    /\ InitRun
    /\ relativeDependencies = <<"A", "B">>
    /\ lib = [n \in Names |-> BuiltLib(PlainLib, 1)]
    /\ regularDep = [n \in Names |-> TRUE]
    /\ store = [n \in Names |-> FreshRecord(BuiltLib(PlainLib, 1))]
    /\ \E e \in {"ok", "buildFails", "packFails"} :
          env = [n \in Names |-> IF n = "B" THEN e ELSE "ok"]
    /\ \E c \in BOOLEAN :
          options = [force |-> FALSE, clean |-> c, parallel |-> FALSE,
                     maxConcurrency |-> 1]

NextClean ==
    \/ SeqStep
    \/ Again
    \/ \E n \in SeqNames : EditSource(n)

SpecClean == InitClean /\ [][NextClean]_vars

(***************************************************************************)
(* The dependency graph as the manifests declare it.                       *)
(***************************************************************************)
\* the declared names the manifest of n depends on
EdgesOf(n) ==
    IF lib[n].exists /\ lib[n].pkg = "ok"
    THEN (lib[n].deps \cup lib[n].devDeps \cup lib[n].peerDeps) \cap Declared
    ELSE {}

RECURSIVE ReachableFrom(_, _)
ReachableFrom(S, k) ==
    IF k = 0 THEN S
    ELSE ReachableFrom(S \cup UNION {EdgesOf(n) : n \in S}, k - 1)

Acyclic ==
    \A n \in Declared :
        n \notin ReachableFrom(EdgesOf(n), Len(relativeDependencies))

NoEdges == \A n \in Declared : EdgesOf(n) = {}

\* nothing in the environment makes the processing of n fail
Succeeds(n) ==
    /\ lib[n].exists /\ lib[n].pkg = "ok" /\ lib[n].nameOk
    /\ env[n] = "ok"
    /\ store[n].hash.st # "unreadable"
    /\ ~options.force

ParallelRun == UseParallel /\ pc # "idle"

(***************************************************************************)
(* C1: in a parallel run no task is started before every task it depends   *)
(* on is in `completed`.                                                   *)
(***************************************************************************)
C1_StartsAfterDependencies ==
    [][ \A n \in Names :
          (pc = "loop" /\ started'[n] > started[n])
              => EdgesOf(n) \subseteq completed ]_vars

\* the chain A -> B -> C has run: A was started, after B, after C
C1_Witness ==
    /\ ParallelRun
    /\ EdgesOf("A") = {"B"} /\ EdgesOf("B") = {"C"} /\ EdgesOf("C") = {}
    /\ started["A"] = 1 /\ started["B"] = 1 /\ started["C"] = 1

(***************************************************************************)
(* C2: in a parallel run the number of tasks in progress never exceeds     *)
(* the concurrency ceiling.                                                *)
(***************************************************************************)
C2_Ceiling == Cardinality(processing) <= options.maxConcurrency

\* more independent tasks than the ceiling: the ceiling is reached while
\* a task that is ready has not been started
C2_Witness ==
    /\ ParallelRun /\ NoEdges
    /\ options.maxConcurrency = 2
    /\ Cardinality(processing) = 2
    /\ \E n \in Declared : started[n] = 0

(***************************************************************************)
(* C3: with the cycle A -> B, B -> A a parallel run ends without the       *)
(* 'Dependency resolution stuck' error, A and B each processed once.       *)
(***************************************************************************)
TwoCycle == "B" \in EdgesOf("A") /\ "A" \in EdgesOf("B")

C3_CycleIsProcessed ==
    (ParallelRun /\ TwoCycle /\ pc = "done"
        /\ \A n \in Declared : Succeeds(n))
        => /\ result.how # "stuck"
           /\ started["A"] = 1 /\ started["B"] = 1

(***************************************************************************)
(* C4: in a parallel run over tasks without edges, every task that does    *)
(* not fail is started and ends in success although another task fails,    *)
(* and the run ends in failure.                                            *)
(***************************************************************************)
C4_IndependentTasksFinish ==
    (ParallelRun /\ NoEdges /\ pc = "done"
        /\ \E f \in Declared : env[f] = "buildFails")
        => /\ \A n \in Declared : Succeeds(n) => stage[n] = "done"
           /\ result.code = 1

(***************************************************************************)
(* C5: in a parallel run a task that fails is recorded and completed, and  *)
(* every task with an edge to it is started afterwards; the run fails.     *)
(***************************************************************************)
C5_FailureUnblocksDependents ==
    (ParallelRun /\ pc = "done" /\ result.how = "errors")
        => \A n \in Declared :
              (\E d \in EdgesOf(n) : stage[d] = "failed") => started[n] >= 1

(***************************************************************************)
(* C6: in a parallel run over an acyclic graph in which no task fails,     *)
(* every task is started exactly once and completes, and the run ends      *)
(* with status 0, whatever the ceiling.                                    *)
(***************************************************************************)
AllProcessedOnce ==
    /\ pc = "done" /\ result = [how |-> "return", code |-> 0]
    /\ completed = Declared
    /\ \A n \in Declared : started[n] = 1 /\ stage[n] = "done"

C6_EveryTaskCompletes ==
    (UseParallel /\ Acyclic /\ \A n \in Declared : Succeeds(n))
        ~> AllProcessedOnce

\* three tasks under a ceiling of two, one of them waiting for another
C6_Witness ==
    /\ AllProcessedOnce
    /\ options.maxConcurrency = 2
    /\ EdgesOf("A") = {"B"}
    /\ \A n \in Declared : verdict[n].st = "changed" /\ installed[n]

(***************************************************************************)
(* What the previous run left, and what was edited since.                  *)
(***************************************************************************)
\* the previous run ended in success and left both halves of n's record
Persisted(n) ==
    /\ runs >= 2
    /\ prev.result = [how |-> "return", code |-> 0]
    /\ prev.store[n].hash.st = "ok" /\ prev.store[n].meta.st = "ok"

Detected(n) == verdict[n].st # "none"

(***************************************************************************)
(* C7: when the previous run found the library changed and rebuilt it      *)
(* with success, without force or clean, and nothing was edited since,     *)
(* this run finds it unchanged, does not invoke the executor, and leaves   *)
(* the stored fingerprint as the previous run wrote it.                    *)
(***************************************************************************)
RebuiltBefore(n) ==
    /\ Persisted(n)
    /\ ~options.force /\ ~options.clean
    /\ prev.verdict[n].st = "changed" /\ prev.invoked[n] = 1
    /\ \A d \in dirty : d[1] # n

C7_Idempotent ==
    \A n \in Declared :
        RebuiltBefore(n)
            => /\ verdict[n].st \in {"none", "unchanged"}
               /\ invoked[n] = 0
               /\ store[n].hash = prev.store[n].hash

\* the second run has ended, A was looked at and left alone
C7_Witness ==
    /\ RebuiltBefore("A")
    /\ runs = 2 /\ pc = "done"
    /\ verdict["A"].st = "unchanged"

(***************************************************************************)
(* C8: detection answers CHANGED whenever the stored fingerprint or the    *)
(* stored metadata is missing or unreadable.                               *)
(***************************************************************************)
\* detection of n has answered and nothing was written since
JustDetected(n) == Detected(n) /\ invoked[n] = 0 /\ runs = 1

C8_BothHalvesNeeded ==
    \A n \in Declared :
        (JustDetected(n)
            /\ (store[n].hash.st # "ok" \/ store[n].meta.st # "ok"))
            => verdict[n].st = "changed"

(***************************************************************************)
(* C9: when the stored metadata exists and the fast path finds no          *)
(* difference, detection compares the fresh fingerprint with the stored    *)
(* one: CHANGED if and only if they differ.                                *)
(***************************************************************************)
FastPathSilent(n) ==
    LET current == createChangeMetadata(lib[n]).meta
        saved == store[n].meta
    IN /\ saved.st = "ok"
       /\ lib[n].pkg = "ok"
       /\ saved.packageVersion = current.packageVersion
       /\ saved.dependencyHash = current.dependencyHash
       /\ current.lastModified <= saved.lastModified

C9_FingerprintDecides ==
    \A n \in Declared :
        (JustDetected(n) /\ FastPathSilent(n) /\ store[n].hash.st = "ok")
            => (verdict[n].st = "changed"
                  <=> computeFileHashes(lib[n]).contents
                          # store[n].hash.contents)
               /\ verdict[n].st \in {"changed", "unchanged"}

\* the fast path is silent and the content of the source file is not the
\* one the stored fingerprint was made of
C9_Witness ==
    /\ JustDetected("A") /\ FastPathSilent("A")
    /\ store["A"].hash.st = "ok"
    /\ computeFileHashes(lib["A"]).contents # store["A"].hash.contents
    /\ verdict["A"].st = "changed"

(***************************************************************************)
(* C10: after a run that ended in success and left a record, one edit of   *)
(* an included file, of a dependency or devDependency entry, of the build  *)
(* command or of the version makes the next detection answer CHANGED.      *)
(***************************************************************************)
OneEdit(n, what) == edits = prev.edits + 1 /\ dirty = {<<n, what>>}

OnlyExcludedEdits(n) ==
    /\ \E d \in dirty : d[1] = n
    /\ \A d \in dirty : d[1] = n => d[2] \in ExcludedPaths

C11_ExcludedEditIsNotSeen ==
    \A n \in Declared :
        (Persisted(n) /\ Detected(n) /\ OnlyExcludedEdits(n)
            /\ ~options.force /\ ~options.clean)
            => verdict[n].st = "unchanged"

(***************************************************************************)
(* C12: with a stored metadata snapshot, a version other than the stored   *)
(* one (a manifest without version counts as 0.0.0) makes detection answer *)
(* CHANGED with the reason 'version changed', whatever the fingerprint;    *)
(* when several fields differ the reason is the first of: version,         *)
(* dependencies and build command, important files modified.               *)
(***************************************************************************)
Changed(why) == [st |-> "changed", reason |-> why]

C12_ReasonPrecedence ==
    \A n \in Declared :
        (JustDetected(n) /\ store[n].meta.st = "ok" /\ lib[n].pkg = "ok")
            => LET current == createChangeMetadata(lib[n]).meta
                   saved == store[n].meta
               IN /\ current.packageVersion # saved.packageVersion
                        => verdict[n] = Changed("Package version changed")
                  /\ ( /\ current.packageVersion = saved.packageVersion
                       /\ current.dependencyHash # saved.dependencyHash )
                        => verdict[n] = Changed("Package dependencies changed")
                  /\ ( /\ current.packageVersion = saved.packageVersion
                       /\ current.dependencyHash = saved.dependencyHash
                       /\ current.lastModified > saved.lastModified )
                        => verdict[n] = Changed("Important files modified")

\* all three fields differ, the stored fingerprint is the one of the tree:
\* the answer is CHANGED, by the version
C12_Witness ==
    LET current == createChangeMetadata(lib["A"]).meta
        saved == store["A"].meta
    IN /\ JustDetected("A") /\ saved.st = "ok"
       /\ current.packageVersion # saved.packageVersion
       /\ current.dependencyHash # saved.dependencyHash
       /\ current.lastModified > saved.lastModified
       /\ store["A"].hash = HashFileOf(computeFileHashes(lib["A"]).contents)
       /\ verdict["A"] = Changed("Package version changed")

(***************************************************************************)
(* C13: from a cache record with unparsable content, detection answers     *)
(* CHANGED and does not throw; the build, pack and install that follow     *)
(* leave a fingerprint and a metadata snapshot of the tree; the next run,  *)
(* nothing edited, answers UNCHANGED.  (Every first run of SpecRecover     *)
(* starts from such a record.)                                             *)
(***************************************************************************)
ValidRecord(n) ==
    /\ store[n].hash = HashFileOf(computeFileHashes(lib[n]).contents)
    /\ store[n].meta = createChangeMetadata(lib[n]).meta

C13_CorruptRecordRecovers ==
    \A n \in Declared :
        /\ (JustDetected(n) /\ CorruptRecord(store[n]))
              => verdict[n].st = "changed"
        /\ (runs = 1 /\ stage[n] = "done") => ValidRecord(n)
        /\ (runs >= 2 /\ prev.result = [how |-> "return", code |-> 0])
              => /\ verdict[n].st \in {"none", "unchanged"}
                 /\ invoked[n] = 0
                 /\ ValidRecord(n)

\* the second run has answered UNCHANGED over the record the first run
\* wrote in place of unparsable metadata
C13_Witness ==
    /\ runs = 2 /\ pc = "done"
    /\ prev.verdict["A"] = Changed("Error reading metadata")
    /\ prev.invoked["A"] = 1
    /\ verdict["A"].st = "unchanged"
    /\ ValidRecord("A")

(***************************************************************************)
(* C14: whatever the options, once the build, the pack and the install of  *)
(* a dependency have succeeded, the store holds a fingerprint and a        *)
(* metadata snapshot for it and the task is not reported as failed.        *)
(***************************************************************************)
\* the executor of n ran in this run and nothing made it fail
ExecutorSucceeded(n) ==
    /\ invoked[n] >= 1
    /\ env[n] = "ok" /\ lib[n].pkg = "ok" /\ lib[n].nameOk
    /\ stage[n] \in {"writeHash", "writeMeta", "done", "failed"}

C14_PersistOnSuccess ==
    \A n \in Declared :
        (ExecutorSucceeded(n) /\ stage[n] \in {"done", "failed"})
            => /\ stage[n] = "done"
               /\ store[n].hash.st = "ok" /\ store[n].meta.st = "ok"

(***************************************************************************)
(* C15: the record of a dependency is never half written: when a run has   *)
(* ended, whatever ended it, the store holds for each dependency either    *)
(* both the fingerprint and the metadata snapshot or neither.  (The first  *)
(* run of SpecBreak starts without records.)                               *)
(***************************************************************************)
C15_PairIsWhole ==
    pc = "done"
        => \A n \in Declared :
              store[n].hash.st = "ok" <=> store[n].meta.st = "ok"

(***************************************************************************)
(* C16: when the build, the pack or the install of a dependency fails,     *)
(* its record stays what it was when the run started, and the next run     *)
(* answers CHANGED for it again.                                           *)
(***************************************************************************)
\* the executor of n cannot succeed
ExecutorFails(n) ==
    \/ env[n] = "packFails"
    \/ env[n] = "buildFails" /\ lib[n].build # ""
    \/ env[n] = "installFails" /\ ~lib[n].nodeModules

\* the record of n when this run started (no clean in SpecFail)
StartRecord(n) == IF runs = 1 THEN NoRecord ELSE prev.store[n]

C16_FailureLeavesRecord ==
    \A n \in Declared :
        /\ (pc # "idle" /\ invoked[n] >= 1 /\ ExecutorFails(n))
              => store[n] = StartRecord(n)
        /\ (runs >= 2 /\ prev.result.code = 1 /\ prev.invoked[n] = 1
                /\ ExecutorFails(n) /\ dirty = {} /\ Detected(n))
              => verdict[n].st = "changed"

\* a record was there, the source was edited and the build broke: the
\* second run failed and left the record, the third run answers CHANGED
C16_Witness ==
    /\ runs = 3 /\ ExecutorFails("A")
    /\ prev.result.code = 1 /\ prev.invoked["A"] = 1
    /\ prev.store["A"].hash.st = "ok" /\ prev.store["A"].meta.st = "ok"
    /\ store["A"] = prev.store["A"]
    /\ verdict["A"].st = "changed"

(***************************************************************************)
(* C17: with force, every declared dependency whose directory exists is    *)
(* rebuilt without asking the change detector, and when no executor fails  *)
(* the run ends with status 0.                                             *)
(***************************************************************************)
C17_ForceRebuildsAll ==
    (options.force /\ pc = "done"
        /\ \A n \in Declared : lib[n].exists /\ ~ExecutorFails(n)
                                   /\ lib[n].pkg = "ok" /\ lib[n].nameOk)
        => /\ \A n \in Declared : invoked[n] = 1 /\ ~Detected(n)
           /\ result.code = 0

(***************************************************************************)
(* C18: with clean, the records of the declared names are deleted before   *)
(* any dependency is looked at and the record of an undeclared name is     *)
(* left as it is; every declared dependency is then found CHANGED and      *)
(* rebuilt, and the run ends with status 0 when no executor fails.         *)
(***************************************************************************)
C18_CleanRebuildsDeclared ==
    (options.clean /\ pc # "idle")
        => /\ (\A n \in Declared : started[n] = 0)
                 => \A n \in Declared : store[n] = NoRecord
           /\ \A n \in Names \ Declared : store[n] = FreshRecord(lib[n])
           /\ \A n \in Declared :
                 Detected(n) => verdict[n] = Changed("No metadata file found")
           /\ (pc = "done" /\ \A n \in Declared : ~ExecutorFails(n))
                 => /\ result = [how |-> "return", code |-> 0]
                    /\ \A n \in Declared :
                          invoked[n] = 1 /\ store[n].hash.st = "ok"
                                         /\ store[n].meta.st = "ok"

\* a second run with clean has rebuilt both libraries, nothing was edited
C18_Witness ==
    /\ options.clean /\ runs = 2 /\ pc = "done" /\ edits = 0
    /\ result.code = 0
    /\ invoked["A"] = 1 /\ invoked["B"] = 1
    /\ store["C"] = FreshRecord(lib["C"])


(***************************************************************************)
(* The verbose flag.  Every place that reads it is one of two kinds: the   *)
(* guard of a console call, or the stdio setting handed to execa           *)
(* (builder.ts lines 30, 59, 88).                                          *)
(***************************************************************************)
\* stdio: verbose ? "inherit" : "ignore"
stdio(verbose) == IF verbose THEN "inherit" ELSE "ignore"

\* a package manager that fails when its output is discarded (a mutant)
execaNeedsTerminal(e, failing, stdioMode) ==
    IF e = failing \/ stdioMode = "ignore" THEN "throw" ELSE "ok"

\* execa: the package manager run for one step; whether it fails is the
\* environment's doing, stdioMode only says where its output goes
execa(e, failing, stdioMode) == IF e = failing THEN "throw" ELSE "ok"

\* the environment as the executor meets it through execa
Met(e, verbose) ==
    IF execa(e, "installFails", stdio(verbose)) = "throw" THEN "installFails"
    ELSE IF execa(e, "buildFails", stdio(verbose)) = "throw" THEN "buildFails"
    ELSE IF execa(e, "packFails", stdio(verbose)) = "throw" THEN "packFails"
    ELSE "ok"

\* buildLibrary with its diagnostics: the error is printed when verbose
buildLibraryVerbose(l, e, t, verbose) ==
    LET b == buildLibrary(l, Met(e, verbose), t)
    IN [ how |-> b.how, msg |-> b.msg, lib |-> b.lib,
         log |-> IF verbose /\ b.msg \in {"Install failed", "Build failed"}
                 THEN <<b.msg>> ELSE <<>> ]

\* packAndInstallLibrary with its diagnostics
packAndInstallLibraryVerbose(e, verbose) ==
    LET p == packAndInstallLibrary(Met(e, verbose))
    IN [ how |-> p.how, msg |-> p.msg,
         log |-> IF verbose
                 THEN IF p.how = "throw"
                      THEN <<"Packing library...", p.msg>>
                      ELSE <<"Packing library...", "Extracting">>
                 ELSE IF p.how = "throw" THEN <<>>
                      ELSE <<"Installing to local node_modules">> ]

\* libraryHasChanged with its diagnostics
libraryHasChangedVerbose(l, rec, verbose) ==
    LET r == libraryHasChanged(l, rec)
    IN [ thrown |-> r.thrown, changed |-> r.changed, reason |-> r.reason,
         hash |-> r.hash,
         log |-> IF ~verbose \/ r.thrown THEN <<>>
                 ELSE IF ~r.changed THEN <<"No changes detected">>
                 ELSE <<r.reason>> ]

\* an answer without its diagnostics
Quiet(r) == [f \in DOMAIN r \ {"log"} |-> r[f]]

C20_DeclaredOrderAtCeilingOne ==
    options.maxConcurrency = 1 =>
       \A i, j \in 1..Len(relativeDependencies) :
          (i < j /\ started[relativeDependencies[j]] > 0)
             => started[relativeDependencies[i]] > 0

(***************************************************************************)
(* C21.  In sequential mode an executor failure aborts the whole run.      *)
(* Once the executor was invoked for a dependency whose install, build or  *)
(* pack fails, no dependency declared after it is checked or built in     *)
(* that run, and the run ends with the dependency reported as failed, its  *)
(* error message emitted and exit status 1.                                *)
(***************************************************************************)
\* the positions declared after position i
After(i) == (i + 1)..Len(relativeDependencies)

C21_SequentialAbort ==
    \A i \in 1..Len(relativeDependencies) :
       LET n == relativeDependencies[i] IN
       (~UseParallel /\ invoked[n] >= 1 /\ ExecutorFails(n))
          => /\ \A j \in After(i) :
                   /\ started[relativeDependencies[j]] = 0
                   /\ invoked[relativeDependencies[j]] = 0
             /\ pc \in {"seqBuild", "seqPack", "done"}
             /\ pc = "done"
                   => /\ result = [how |-> "errors", code |-> 1]
                      /\ stage[n] = "failed"
                      /\ \E k \in 1..Len(errors) :
                            /\ errors[k].name = n
                            /\ errors[k].msg \in {"Install failed",
                                                  "Build failed",
                                                  "Pack failed"}

\* the pack of A failed: the run is over, B was never looked at although
\* it has no record and would have been built
C21_Witness ==
    /\ pc = "done" /\ env["A"] = "packFails" /\ invoked["A"] = 1
    /\ result.code = 1
    /\ started["B"] = 0 /\ store["B"] = NoRecord

(***************************************************************************)
(* C22.  The overall status of a parallel run.  When a parallel run has    *)
(* ended, its exit status is 1 exactly when a task recorded an error or    *)
(* the scheduler was stuck; a failure that is not the stuck error is      *)
(* reported by the aggregated message, which names every dependency whose  *)
(* task failed and no dependency that was found unchanged.                 *)
(***************************************************************************)
Named(n) == \E k \in 1..Len(errors) : errors[k].name = n

C22_StatusIsAggregated ==
    (ParallelRun /\ pc = "done")
       => /\ result.code = 1 <=> (Len(errors) > 0 \/ result.how = "stuck")
          /\ (result.code = 1 /\ result.how # "stuck")
                => result.how = "errors"
          /\ \A n \in Declared : stage[n] = "failed" => Named(n)
          /\ \A n \in Declared : Named(n) => verdict[n].st # "unchanged"

(***************************************************************************)
(* C23.  Stuck detection.  When the scheduling loop of a parallel run      *)
(* looks for work (no error was recorded so far) and finds a task that is  *)
(* not completed, no task ready and no task running, the run ends at once  *)
(* with the 'Dependency resolution stuck' error; the error is raised in    *)
(* no other situation, so never while a task is running or ready; and its  *)
(* message lists every task that is not completed, each with exactly the   *)
(* dependencies it declares that are not completed.                        *)
(***************************************************************************)
NothingToDo ==
    /\ \E n \in Declared : n \notin completed
    /\ Len(getReadyTasks(tasks, completed, processing)) = 0
    /\ processing = {}

StuckMessageIsWhole(r) ==
    /\ {r.remaining[i].name : i \in 1..Len(r.remaining)}
          = Declared \ completed
    /\ \A i \in 1..Len(r.remaining) :
          Range(r.remaining[i].waitingFor)
             = EdgesOf(r.remaining[i].name) \ completed

C24_StartedTasksEnd ==
    (ParallelRun /\ pc = "done")
       => \A n \in Declared :
             (started[n] > 0 /\ lib[n].nameOk)
                => stage[n] \in {"done", "skipped", "failed"}

(***************************************************************************)
(* C25.  At most one executor in flight per name.  In a parallel run a     *)
(* task is started for a name only while no task of that name is in       *)
(* flight, the names in `processing` are exactly the names whose task is   *)
(* in flight, and the executor is invoked at most once for each name.      *)
(***************************************************************************)
InFlight == {"detect", "build", "pack", "writeHash", "writeMeta"}

C25_OneExecutorPerName ==
    [][ ParallelRun' =>
          \A n \in Names :
             /\ started'[n] > started[n]
                   => (n \notin processing /\ stage[n] \notin InFlight)
             /\ n \in processing' <=> stage'[n] \in InFlight
             /\ invoked'[n] <= 1 ]_vars

\* ceiling 2, three independent tasks: A has ended, C was started in a
\* second wave while B, started in the first, is still in flight
C25_Witness ==
    /\ ParallelRun /\ NoEdges /\ options.maxConcurrency = 2
    /\ completed = {"A"} /\ processing = {"B", "C"}
    /\ stage["C"] = "detect" /\ stage["B"] # "detect"
    /\ started["B"] = 1 /\ invoked["B"] = 1

(***************************************************************************)
(* C26.  The edges of the graph.  In the task list of a parallel run the   *)
(* task of a declared dependency A lists B among its dependencies exactly  *)
(* when B is a key of A's dependencies, devDependencies or                 *)
(* peerDependencies and B is declared; so every edge is a declared name.   *)
(***************************************************************************)
\* the keys of the three dependency objects of n's manifest, as read
CombinedDeps(n) ==
    IF lib[n].exists /\ lib[n].pkg = "ok"
    THEN lib[n].deps \cup lib[n].devDeps \cup lib[n].peerDeps
    ELSE {}

C26_EdgesAreDeclaredDeps ==
    (ParallelRun /\ tasks # <<>>)
       => \A i \in 1..Len(tasks) :
             Range(tasks[i].dependencies)
                = CombinedDeps(tasks[i].name) \cap Declared

(***************************************************************************)
(* C27.  A file that cannot be hashed is absorbed conservatively.  In a    *)
(* run in which an included file of a dependency cannot be hashed, the     *)
(* fingerprint holds the sentinel line for the file, the file is reported  *)
(* among the changed files, the detection does not throw, and its verdict  *)
(* for the dependency is CHANGED.                                          *)
(***************************************************************************)
\* an included file of n cannot be hashed
Unhashable(n) ==
    \E i \in 1..Len(findFiles(lib[n])) : ~Readable(lib[n], findFiles(lib[n])[i])

C27_UnhashableMeansChanged ==
    \A n \in Declared :
       (Detected(n) /\ Unhashable(n))
          => /\ \A i \in 1..Len(findFiles(lib[n])) :
                   LET p == findFiles(lib[n])[i] IN
                   ~Readable(lib[n], p)
                      => /\ computeFileHashes(lib[n]).contents[i]
                               = <<ErrorHash, p>>
                         /\ p \in Range(computeFileHashes(lib[n]).changedFiles)
             /\ verdict[n].st = "changed"

(***************************************************************************)
(* C28.  The fingerprint is deterministic.  In whatever order the file     *)
(* system lists the included files of a library, computeFileHashes gives   *)
(* the same lines '<hash> <path>' in ascending order of the paths; the     *)
(* lines are a function of the set of pairs of an included relative path   *)
(* and its content hash: two trees with the same pairs have the same       *)
(* fingerprint, whatever their modification times and their ignored files. *)
(***************************************************************************)
\* the pairs of an included path and its content hash
PairsOf(l) ==
    {<<getFileHash(l, findFiles(l)[i]), findFiles(l)[i]>> :
        i \in 1..Len(findFiles(l))}

Ascending(contents) ==
    \A i, j \in 1..Len(contents) :
       i < j => Rank(contents[i][2]) < Rank(contents[j][2])

C28_FingerprintIsDeterministic ==
    LET l == lib["A"] IN
    /\ \A e \in Enumerations(l) :
          /\ computeFileHashesOf(l, e).contents = computeFileHashes(l).contents
          /\ Ascending(computeFileHashesOf(l, e).contents)
          /\ Range(computeFileHashesOf(l, e).contents) = PairsOf(l)
    /\ \A k \in FingerprintLibs :
          PairsOf(k) = PairsOf(l)
             => \A e \in Enumerations(k) :
                   computeFileHashesOf(k, e).contents
                      = computeFileHashes(l).contents

\* the detection has fingerprinted a tree with two included files, which
\* globby may list in two orders, after a build that changed the ignored
\* files and their modification times
C28_Witness ==
    /\ Detected("A") /\ invoked["A"] = 1
    /\ Len(hashStore["A"].hash) = 2
    /\ Cardinality(Enumerations(lib["A"])) = 2
    /\ lib["A"].mt["dist"] > 1

(***************************************************************************)
(* C29.  Concurrent install runs are safe.  When several install           *)
(* processes run side by side against the same project and the same        *)
(* library, every process that has ended has ended with status 0.          *)
(***************************************************************************)
C29_ConcurrentRunsSucceed ==
    \A p \in DOMAIN procs : procs[p].pc = "done" => procs[p].code = 0

(***************************************************************************)
(* C30.  The command line selects the scheduler.  When the install command *)
(* was started with --parallel and --max-concurrency K on a project with   *)
(* more than one declared dependency, the run is a run of the parallel     *)
(* scheduler with ceiling K; without --parallel, or with one declared      *)
(* dependency, it is a run of the sequential loop.                         *)
(***************************************************************************)
C30_CommandLineSelectsScheduler ==
    \A argv \in Argvs :
       (options = defaultCommand(argv) /\ pc \notin {"idle", "done"})
          => IF argv.parallel /\ Len(relativeDependencies) > 1
             THEN /\ pc \in {"loop", "race", "sleep", "drain", "spin"}
                  /\ options.maxConcurrency = argv.maxConcurrency
             ELSE pc \in {"seq", "seqBuild", "seqPack", "seqWriteHash",
                          "seqWriteMeta"}

(***************************************************************************)
(* Runs over libraries whose source directory may be missing, under        *)
(* either scheduler.                                                       *)
(***************************************************************************)
\* each library is there and changed, or missing and installed normally,
\* or missing and not installed at all
InitMissing ==
    /\ InitRun
    /\ relativeDependencies = NameSeq
    /\ env = [n \in Names |-> "ok"]
    /\ store = [n \in Names |-> NoRecord]
    /\ \E sc \in [Names -> {"changed", "skip", "unresolved"}],
          g \in Graphs(Names) :
          /\ \A n \in Names : sc[n] \in {"skip", "unresolved"} => g[n] = {}
          /\ lib = [n \in Names |-> LibOf(sc[n], g[n])]
          /\ regularDep = [n \in Names |-> sc[n] # "unresolved"]
    /\ \E p \in BOOLEAN, c \in 1..2 :
          /\ ~p => c = 1
          /\ options = [force |-> FALSE, clean |-> FALSE, parallel |-> p,
                        maxConcurrency |-> c]

NextMissing == Next \/ SeqStep

SpecMissing == InitMissing /\ [][NextMissing]_vars

(***************************************************************************)
(* C31.  The unresolvable dependency.  When a declared dependency has no   *)
(* source directory and its name is not a normal or dev dependency of the  *)
(* consumer, a run that has ended has ended with status 1; and once the    *)
(* run has come to that dependency, the run is a failure that names it:    *)
(* the sequential run exits at once with status 1 and the message "Failed  *)
(* to resolve dependency", the parallel run records that error for the     *)
(* name and starts no further wave.  The executor is never invoked for     *)
(* the name and no cache record is written for it.                         *)
(***************************************************************************)
Unresolvable(n) == n \in Declared /\ ~lib[n].exists /\ ~regularDep[n]

\* what holds of an unresolvable dependency once the run has come to it
UnresolvedWhenReached ==
    \A n \in Names :
       (Unresolvable(n) /\ started[n] > 0) =>
          /\ stage[n] = "failed"
          /\ started[n] = 1
          /\ invoked[n] = 0
          /\ store[n] = NoRecord
          /\ hashStore[n] = EmptyHashStore
          /\ pc = "done" => result.code = 1
          /\ UseParallel =>
                /\ \E k \in 1..Len(errors) :
                      errors[k] = [name |-> n,
                                   msg |-> "Failed to resolve dependency"]
                /\ pc \in {"race", "loop", "drain", "done"}
                /\ pc = "loop" => ~LoopGuard
          /\ ~UseParallel =>
                /\ pc = "done"
                /\ result = [how |-> "unresolved", code |-> 1]

C31_UnresolvedFails ==
    /\ UnresolvedWhenReached
    /\ \A n \in Names :
          (Unresolvable(n) /\ pc = "done") => result.code = 1

(***************************************************************************)
(* init and add: the commands that edit the consumer's manifest.           *)
(***************************************************************************)
MaxPaths == 2
MaxCmds == 2

\* pkg.scripts[script]: the object's own value, or what it inherits
get(scripts, key) ==
    IF scripts[key] # Undefined THEN scripts[key]
    ELSE IF key = Inherited THEN Function ELSE Undefined

\* !value is false: the value is there and is not the empty string
truthy(v) == v # Undefined /\ v # String(<<>>)

\* command.includes("relative-deps")
includes(parts) == \E i \in 1..Len(parts) : parts[i] = "relative-deps"

\* addScriptToPackage: the manifest it writes, or the TypeError of calling
\* includes on a value that is not a string
addScriptToPackage(pkg, script) ==
    LET v == get(pkg.scripts, script) IN
    IF ~truthy(v)
    THEN [thrown |-> FALSE,
          pkg |-> [pkg EXCEPT !.scripts[script] = String(<<"relative-deps">>)]]
    ELSE IF v.type # "string"
    THEN [thrown |-> TRUE, pkg |-> pkg]
    ELSE IF ~includes(v.parts)
    THEN [thrown |-> FALSE,
          pkg |-> [pkg EXCEPT !.scripts[script] =
                       String(Append(v.parts, "relative-deps"))]]
    ELSE [thrown |-> FALSE, pkg |-> pkg]

\* setupEmptyRelativeDeps
setupEmptyRelativeDeps(pkg) ==
    IF ~pkg.relativeDependencies.present
    THEN [pkg EXCEPT !.relativeDependencies =
              [present |-> TRUE, entries |-> [n \in PkgNames |-> ""]]]
    ELSE pkg

\* the directories a path of `add` can name: two libraries, a second copy
\* of the first, a manifest without a name, an unparsable manifest, and no
\* directory at all
Paths == {"./A", "./A2", "./B", "./anon", "./broken", "./nope"}

PathInfo(p) ==
    CASE p = "./A" -> [access |-> TRUE, json |-> TRUE, name |-> "A"]
      [] p = "./A2" -> [access |-> TRUE, json |-> TRUE, name |-> "A"]
      [] p = "./B" -> [access |-> TRUE, json |-> TRUE, name |-> "B"]
      [] p = "./anon" -> [access |-> TRUE, json |-> TRUE, name |-> ""]
      [] p = "./broken" -> [access |-> TRUE, json |-> FALSE, name |-> ""]
      [] OTHER -> [access |-> FALSE, json |-> FALSE, name |-> ""]

\* what the mapper of one path throws, "" when it returns a library
errorOf(p) ==
    IF ~PathInfo(p).access THEN "Failed to resolve dependency"
    ELSE IF ~PathInfo(p).json THEN "Unexpected token"
    ELSE IF PathInfo(p).name = "" THEN "does not have a name"
    ELSE ""

\* a check that looks at the first path only (a mutant)
rejectionsOfFirst(paths) ==
    {errorOf(paths[i]) : i \in 1..(IF Len(paths) > 0 THEN 1 ELSE 0)} \ {""}

\* the rejections Promise.all can settle with: whichever mapper throws
\* first
rejections(paths) == {errorOf(paths[i]) : i \in 1..Len(paths)} \ {""}

\* the libraries of the paths that resolve, in the order given
libraries(paths) ==
    LET ok == SelectSeq(paths, LAMBDA p : errorOf(p) = "")
    IN [i \in 1..Len(ok) |-> [relPath |-> ok[i], name |-> PathInfo(ok[i]).name]]

\* libraries.forEach(dependency => relativeDependencies[name] = relPath)
RECURSIVE mapLibraries(_, _)
mapLibraries(entries, libs) ==
    IF Len(libs) = 0 THEN entries
    ELSE mapLibraries([entries EXCEPT ![Head(libs).name] = Head(libs).relPath],
                      Tail(libs))

\* everything but the manifest and the command
installer ==
    << relativeDependencies, regularDep, lib, env, store, options, now, pc,
       result, tasks, completed, processing, errors, raceSet, stage,
       hashStore, cur, installed, runs, edits, started, invoked, verdict,
       prev, dirty, procs, archive, watch >>

NoLast == [cmd |-> "none", script |-> "", step |-> ""]

\* the command line: init or add, with a script name and paths; after an
\* init, init is run again
Command ==
    /\ shell.step \in {"idle", "done"}
    /\ shell.count < MaxCmds
    /\ shell.step = "done" => shell.cmd = "init"
    /\ \E c \in {"init", "add"}, s \in ScriptNames, n \in 0..MaxPaths :
       \E ps \in [1..n -> Paths] :
          /\ shell.step = "done" => c = "init"
          /\ c = "init" => n = 0
          /\ shell' = [step |-> "package", cmd |-> c, script |-> s,
                       paths |-> ps, stderr |-> <<>>, code |-> 0,
                       before |-> manifest,
                       last |-> IF shell.step = "done"
                                THEN [cmd |-> shell.cmd,
                                      script |-> shell.script,
                                      step |-> shell.step]
                                ELSE NoLast,
                       count |-> shell.count + 1]
    /\ UNCHANGED << manifest, installer >>

\* installRelativeDepsPackage: the package manager adds the package, or
\* fails to
InstallPackage ==
    /\ shell.step = "package"
    /\ IF manifest.devDependency
       THEN UNCHANGED manifest
       ELSE \E added \in BOOLEAN :
               manifest' = [manifest EXCEPT !.devDependency = added]
    /\ shell' = [shell EXCEPT !.step = "setup"]
    /\ UNCHANGED installer

SetupEmpty ==
    /\ shell.step = "setup"
    /\ manifest' = setupEmptyRelativeDeps(manifest)
    /\ shell' = [shell EXCEPT !.step = "script"]
    /\ UNCHANGED installer

\* addScriptToPackage; a TypeError is an unhandled rejection of the command
AddScript ==
    /\ shell.step = "script"
    /\ LET r == addScriptToPackage(manifest, shell.script) IN
       /\ manifest' = r.pkg
       /\ shell' = IF r.thrown
                   THEN [shell EXCEPT !.step = "crashed", !.code = 1,
                                      !.stderr = Append(@, "TypeError")]
                   ELSE [shell EXCEPT !.step =
                             IF shell.cmd = "init" THEN "done" ELSE "paths"]
    /\ UNCHANGED installer

\* addRelativeDeps after its init: no paths, a path that does not resolve,
\* or the entries written
AddPaths ==
    /\ shell.step = "paths"
    /\ IF Len(shell.paths) = 0
       THEN /\ shell' = [shell EXCEPT !.step = "done"]
            /\ UNCHANGED manifest
       ELSE IF rejections(shell.paths) # {}
       THEN /\ \E msg \in rejections(shell.paths) :
                  shell' = [shell EXCEPT !.step = "done",
                                         !.stderr = Append(@, msg)]
            /\ UNCHANGED manifest
       ELSE /\ manifest' =
                  [manifest EXCEPT !.relativeDependencies.entries =
                       mapLibraries(@, libraries(shell.paths))]
            /\ shell' = [shell EXCEPT !.step = "install"]
    /\ UNCHANGED installer

\* await installRelativeDeps(): the run leaves the manifest alone and ends
\* the command with its status
AddInstall ==
    /\ shell.step = "install"
    /\ \E code \in {0, 1} :
          shell' = [shell EXCEPT !.step = "done", !.code = code]
    /\ UNCHANGED << manifest, installer >>

InitManifest ==
    /\ InitAlone
    /\ procs = <<>>
    /\ archive = FALSE
    /\ watch = NoWatch
    /\ relativeDependencies = <<>>
    /\ regularDep = [n \in Names |-> TRUE]
    /\ lib = [n \in Names |-> PlainLib]
    /\ env = [n \in Names |-> "ok"]
    /\ store = [n \in Names |-> NoRecord]
    /\ options = [force |-> FALSE, clean |-> FALSE, parallel |-> FALSE,
                  maxConcurrency |-> 1]
    /\ \E prepare \in {Undefined, String(<<>>), String(<<"tsc">>),
                       String(<<"relative-deps">>),
                       String(<<"tsc", "relative-deps">>)},
          own \in {Undefined, String(<<"tsc">>)},
          rel \in {[present |-> FALSE, entries |-> [n \in PkgNames |-> ""]],
                   [present |-> TRUE, entries |-> [n \in PkgNames |-> ""]],
                   [present |-> TRUE,
                    entries |-> [n \in PkgNames |->
                                    IF n = "A" THEN "./old" ELSE ""]]},
          dev \in BOOLEAN :
          manifest = [scripts |-> [s \in ScriptNames |->
                                      IF s = "prepare" THEN prepare
                                      ELSE IF s = Inherited THEN own
                                      ELSE Undefined],
                      relativeDependencies |-> rel,
                      devDependency |-> dev]
    /\ shell = [step |-> "idle", cmd |-> "none", script |-> "",
                paths |-> <<>>, stderr |-> <<>>, code |-> 0,
                before |-> manifest, last |-> NoLast, count |-> 0]

NextManifest ==
    \/ Command
    \/ InstallPackage
    \/ SetupEmpty
    \/ AddScript
    \/ AddPaths
    \/ AddInstall

SpecManifest == InitManifest /\ [][NextManifest]_vars

(***************************************************************************)
(* C32.  init.  When `init` with script name S has ended, the manifest     *)
(* has a relativeDependencies object, the command of scripts[S] contains   *)
(* "relative-deps", a command that was there before is kept as the first   *)
(* part of it, and the entries of relativeDependencies are as they were;   *)
(* when that init follows an init with the same S, the scripts and the     *)
(* relativeDependencies of the manifest are as they were before it.        *)
(***************************************************************************)
InitEnded == shell.cmd = "init" /\ shell.step \in {"done", "crashed"}

C32_InitPostcondition ==
    InitEnded =>
       LET S == shell.script
           was == shell.before.scripts[S]
           is == manifest.scripts[S]
       IN /\ shell.step = "done" /\ shell.code = 0
          /\ manifest.relativeDependencies.present
          /\ is.type = "string" /\ includes(is.parts)
          /\ (was.type = "string" /\ was.parts # <<>>) =>
                \/ is = was
                \/ is = String(Append(was.parts, "relative-deps"))
          /\ manifest.relativeDependencies.entries =
                shell.before.relativeDependencies.entries
          /\ (shell.last.cmd = "init" /\ shell.last.script = S) =>
                /\ manifest.scripts = shell.before.scripts
                /\ manifest.relativeDependencies =
                      shell.before.relativeDependencies

(***************************************************************************)
(* C33.  add is all or nothing.  Once `add` has come to its paths: when    *)
(* one of them has no package.json, an unparsable one or one without a     *)
(* name, the command reports the error of one such path ("Failed to        *)
(* resolve dependency" for a missing package.json, "does not have a name"  *)
(* for a manifest without a name, the parser's message for an unparsable   *)
(* one), reports nothing else, exits with status 0 and leaves every entry  *)
(* of relativeDependencies as it was; when all of them resolve, nothing    *)
(* is reported and each library name is mapped to the last path given for  *)
(* it, the other entries staying as they were.                             *)
(***************************************************************************)
AddCameToPaths ==
    shell.cmd = "add" /\ shell.step \in {"install", "done"}
    /\ Len(shell.paths) > 0

Failing(paths) == {i \in 1..Len(paths) : errorOf(paths[i]) # ""}

\* the last of the paths whose library has the name n, "" when none has
LastPathOf(paths, n) ==
    LET given == {i \in 1..Len(paths) : PathInfo(paths[i]).name = n}
    IN IF given = {} THEN ""
       ELSE paths[CHOOSE i \in given : \A j \in given : j <= i]

ManifestUnreadable(n) == ~lib[n].exists \/ lib[n].pkg # "ok"

C34_GraphBuildNeverFatal ==
    [][ (pc = "idle" /\ pc' # "idle" /\ UseParallel) =>
          /\ pc' = "loop" /\ result' = result /\ errors' = <<>>
          /\ Len(tasks') = Len(relativeDependencies)
          /\ \A n \in Declared :
                /\ Cardinality({i \in 1..Len(tasks') : tasks'[i].name = n}) = 1
                /\ ManifestUnreadable(n) =>
                      \A i \in 1..Len(tasks') :
                         tasks'[i].name = n => tasks'[i].dependencies = <<>> ]_vars

\* the manifest of A lists a declared name but cannot be parsed: A has a
\* task, which waits for nothing, and B's task still waits for A
C34_Witness ==
    /\ ParallelRun /\ pc = "loop" /\ completed = {}
    /\ lib["A"].pkg = "corrupt"
    /\ (lib["A"].deps \cup lib["A"].devDeps \cup lib["A"].peerDeps)
          \cap Declared # {}
    /\ Len(tasks) = Len(relativeDependencies)
    /\ \E i \in 1..Len(tasks) :
          tasks[i].name = "A" /\ tasks[i].dependencies = <<>>
    /\ \E i \in 1..Len(tasks) :
          tasks[i].name = "B" /\ tasks[i].dependencies = <<"A">>

(***************************************************************************)
(* C35.  The order of the tasks.  The task list a parallel run schedules   *)
(* is a permutation of the graph it built, cyclic or not: it has the same  *)
(* length and each task of the graph occurs in it exactly once; and when   *)
(* the graph is acyclic, each task comes after every task it depends on.   *)
(***************************************************************************)
PositionOf(ts, n) == CHOOSE i \in 1..Len(ts) : ts[i].name = n

C35_SortIsPermutation ==
    (ParallelRun /\ pc # "idle") =>
       LET graph == buildDependencyGraph(relativeDependencies, lib)
       IN /\ Len(tasks) = Len(graph)
          /\ \A k \in 1..Len(graph) :
                Cardinality({i \in 1..Len(tasks) : tasks[i] = graph[k]}) = 1
          /\ Acyclic =>
                \A i \in 1..Len(tasks) :
                   \A d \in Range(tasks[i].dependencies) :
                      PositionOf(tasks, d) < i

\* A depends on C, which depends on B: the list is B, C, A
C35_Witness ==
    /\ ParallelRun /\ pc = "loop" /\ Acyclic
    /\ EdgesOf("A") = {"C"} /\ EdgesOf("C") = {"B"}
    /\ [i \in 1..Len(tasks) |-> tasks[i].name] = <<"B", "C", "A">>

(***************************************************************************)
(* C36.  The pair a rebuild persists.  The fingerprint a run writes for a  *)
(* dependency is the one its change detector computed from the tree       *)
(* before the executor ran, whichever check decided the verdict; the       *)
(* metadata it writes is computed from the tree as the executor left it,   *)
(* after the build and the install, and is not a value the detector        *)
(* computed.                                                               *)
(***************************************************************************)
\* the run computes the metadata it is going to write for n
TakesSnapshot(n) ==
    /\ hashStore'[n].metadata # hashStore[n].metadata
    /\ hashStore'[n].metadata.st = "ok"

C36_PairAsWritten ==
    [][ \A n \in Names :
          \* the fingerprint is computed by the detector, before the executor
          /\ (hashStore'[n].hash # hashStore[n].hash /\ hashStore'[n].hash # <<>>)
                => /\ invoked[n] = 0 /\ lib' = lib
                   /\ hashStore'[n].hash = computeFileHashes(lib[n]).contents
                   /\ verdict'[n].st \in {"changed", "unchanged"}
          \* and written as it is once the executor has succeeded
          /\ (store'[n].hash # store[n].hash /\ pc # "idle")
                => /\ store'[n].hash = HashFileOf(hashStore[n].hash)
                   /\ verdict[n].st = "changed"
                   /\ invoked[n] = 1 /\ installed[n]
          \* the metadata is computed after the executor, from its tree
          /\ TakesSnapshot(n)
                => /\ invoked[n] = 1 /\ installed[n]
                   /\ hashStore'[n].metadata = createChangeMetadata(lib[n]).meta
          /\ (store'[n].meta # store[n].meta /\ pc # "idle")
                => store'[n].meta = hashStore[n].metadata ]_vars

\* the claim as it stands: the metadata that is written is taken when the
\* fingerprint is, before the executor ran
C36_PairFromOneObservation ==
    [][ \A n \in Names : TakesSnapshot(n) => invoked[n] = 0 ]_vars

\* the second run found the content of A changed by the full comparison
\* and rebuilt it: the metadata written carries the time of that build
C36_Witness ==
    /\ runs = 2 /\ stage["A"] = "done"
    /\ verdict["A"] = Changed("Content changed")
    /\ store["A"].hash = HashFileOf(hashStore["A"].hash)
    /\ store["A"].hash # prev.store["A"].hash
    /\ store["A"].meta = createChangeMetadata(lib["A"]).meta
    /\ store["A"].meta.lastModified = lib["A"].mt["dist"]
    /\ store["A"].meta.lastModified > prev.store["A"].meta.lastModified

(***************************************************************************)
(* C37.  The sequential skip keeps going.  When a sequential run has       *)
(* skipped a declared dependency whose directory is missing and whose      *)
(* name is a normal or dev dependency, and has ended with success, every   *)
(* dependency declared after it was checked, and rebuilt and installed     *)
(* if its directory is there and it was found changed.                     *)
(***************************************************************************)
Skippable(n) == n \in Declared /\ ~lib[n].exists /\ regularDep[n]

C37_SkipKeepsGoing ==
    (~UseParallel /\ pc = "done" /\ result.code = 0) =>
       \A i \in 1..Len(relativeDependencies) :
          LET n == relativeDependencies[i] IN
          (Skippable(n) /\ started[n] > 0) =>
             \A j \in (i + 1)..Len(relativeDependencies) :
                LET m == relativeDependencies[j] IN
                /\ started[m] > 0
                /\ verdict[m].st = "changed" => installed[m]

(***************************************************************************)
(* C38.  The parallel skip ends.  In a parallel run a task whose           *)
(* directory is missing and whose name is a normal or dev dependency is    *)
(* started at most once; once started it is completed, so that its         *)
(* dependents can become ready, with no executor invoked and no cache      *)
(* record written for it; and the loop never goes round without a          *)
(* promise to wait for.                                                    *)
(***************************************************************************)
C38_SkipTerminates ==
    UseParallel =>
       /\ pc # "spin"
       /\ \A n \in Names :
             Skippable(n) =>
                /\ started[n] <= 1
                /\ started[n] = 1 => n \in completed
                /\ invoked[n] = 0
                /\ store[n] = NoRecord

(***************************************************************************)
(* Watch mode: one watcher and one debounced handler for each declared     *)
(* path; the handler calls installRelativeDeps and does not wait for it.   *)
(* The runs are those of the one declared library, moving at their awaits  *)
(* inside the one watching process; process.exit in a run ends them all.   *)
(***************************************************************************)
debounceWait == 500
MaxEvents == 3
MaxTicks == 6

\* the clock moves in half windows
Step == debounceWait \div 2
Unarmed == -1

\* no run has called process.exit
Alive == \A p \in DOMAIN procs : procs[p].code = 0
Watching == watch.on /\ Alive

beside ==
    << ownRun, relativeDependencies, regularDep, env, options, manifest,
       shell, store, now, installed, archive >>

\* watchRelativeDeps: fs.watch on the path of each declared dependency
WatchStart ==
    /\ ~watch.on /\ watch.t = 0
    /\ watch' = [watch EXCEPT !.on = TRUE]
    /\ UNCHANGED << beside, lib, procs >>

\* a change event on the path of n, with the edit behind it: the debounced
\* handler (re)starts its timer
FsEvent(n) ==
    /\ Watching
    /\ watch.events < MaxEvents
    /\ \E c \in Contents : lib' = [lib EXCEPT ![n].src = c]
    /\ watch' = [watch EXCEPT !.due[n] = watch.t + debounceWait,
                              !.events = @ + 1]
    /\ UNCHANGED << beside, procs >>

\* time passes; a timer that is due fires before more time passes
Tick ==
    /\ Watching
    /\ watch.t < MaxTicks * Step
    /\ \A n \in Declared : watch.due[n] = Unarmed \/ watch.due[n] > watch.t
    /\ watch' = [watch EXCEPT !.t = @ + Step]
    /\ UNCHANGED << beside, lib, procs >>

\* the timer of n fires: () => installRelativeDeps(), which runs to its
\* first await
Debounced(n) ==
    /\ Watching
    /\ watch.due[n] # Unarmed /\ watch.due[n] <= watch.t
    /\ watch' = [watch EXCEPT !.due[n] = Unarmed]
    /\ procs' = Append(procs, ProcStart)
    /\ UNCHANGED << beside, lib >>

\* a run in flight goes on
WatchRun(p) == Watching /\ ProcStep(p)

InitWatch ==
    /\ InitAlone
    /\ manifest = NoManifest
    /\ shell = NoShell
    /\ relativeDependencies = <<"A">>
    /\ regularDep = [n \in Names |-> TRUE]
    /\ env = [n \in Names |-> "ok"]
    /\ options = [force |-> FALSE, clean |-> FALSE, parallel |-> FALSE,
                  maxConcurrency |-> 1]
    /\ lib = [n \in Names |-> PlainLib]
    /\ store = [n \in Names |-> NoRecord]
    /\ procs = <<>>
    /\ archive = FALSE
    /\ watch = [on |-> FALSE, t |-> 0, due |-> [n \in Names |-> Unarmed],
                events |-> 0]

NextWatch ==
    \/ WatchStart
    \/ Tick
    \/ \E n \in Declared : FsEvent(n)
    \/ \E n \in Declared : Debounced(n)
    \/ \E p \in DOMAIN procs : WatchRun(p)

SpecWatch == InitWatch /\ [][NextWatch]_vars

(***************************************************************************)
(* C39.  Watch mode serialises its runs.  An install run starts only when  *)
(* the debounce window has passed since the last change event on the path  *)
(* whose timer starts it, so that the events of one window start one run;  *)
(* and it starts only when no earlier run is still detecting, building,    *)
(* packing, installing or writing its record, so that at most one run is   *)
(* in flight.                                                              *)
(***************************************************************************)
RunsInFlight == {p \in DOMAIN procs : procs[p].pc # "done"}

C39_WatchSerialises ==
    [][ Len(procs') > Len(procs) =>
          /\ \E n \in Declared :
                /\ watch.due[n] # Unarmed
                /\ watch.t >= watch.due[n]
                /\ watch'.due[n] = Unarmed
          /\ RunsInFlight = {}
          /\ Cardinality({p \in DOMAIN procs' : procs'[p].pc # "done"}) <= 1 ]_vars

====
